---- MODULE Spec2Model ----
(***************************************************************************)
(* A model of json-parser-rust: the character-level Lexer (src/src/lexer.rs)*)
(* and the recursive-descent Parser (src/src/parser.rs).                    *)
(*                                                                         *)
(* Characters are Unicode code points (naturals), a &str / String is a     *)
(* sequence of code points, Option<char>::None is the value None.          *)
(***************************************************************************)
EXTENDS Integers, Sequences, FiniteSets, TLC

VARIABLES
    input,              \* the &str handed to Lexer::new / parse_json
    overflow_checks,    \* build profile: TRUE = debug (overflow panics), FALSE = release (wraps)
    lexer,              \* Lexer { char_context, token_context, data_iter }
    before,             \* the Lexer as it was when the last next() was called
    items,              \* every Option<LexerResult> next() has returned, in order
    pc,                 \* where parse_json / the lexer driver stands
    current_token_info, \* Parser.current_token_info
    stack,              \* the open parse_array / parse_object frames, innermost last
    ret,                \* the Json a parse_json_value call has just returned
    outcome             \* what parse_json returned (or that it panicked)

vars == <<input, overflow_checks, lexer, before, items, pc,
          current_token_info, stack, ret, outcome>>

(***************************************************************************)
(* Bounds                                                                  *)
(***************************************************************************)
MaxPieces == 4       \* lexemes concatenated into an input of parse_json
MaxWhitespace == 3   \* characters of an input made of whitespace only
MaxEscapes == 2      \* characters and escapes between the quotes of a string
MaxLexerPieces == 3  \* lexemes and fragments in an input of the Lexer
MaxNumberPieces == 4 \* pieces of an input made of number characters
MaxCalls == 6        \* calls of next() a caller iterating over the Lexer makes
MaxMembers == 3      \* members of an object whose keys may repeat
MaxSimplePieces == 3 \* structural tokens, keywords and whitespace in an input of the Lexer

(***************************************************************************)
(* Characters                                                              *)
(***************************************************************************)
None == -1     \* Option::None where a char or an integer is expected
Panic == -2    \* the call panicked (a failed assert!, an overflow check)

Ch == [tab |-> 9, lf |-> 10, cr |-> 13, space |-> 32, quote |-> 34,
       plus |-> 43, comma |-> 44, minus |-> 45, dot |-> 46, slash |-> 47,
       zero |-> 48, one |-> 49, nine |-> 57, colon |-> 58,
       A |-> 65, C |-> 67, D |-> 68, E |-> 69, F |-> 70,
       lbracket |-> 91, backslash |-> 92, rbracket |-> 93,
       a |-> 97, b |-> 98, e |-> 101, f |-> 102, l |-> 108, n |-> 110,
       r |-> 114, s |-> 115, t |-> 116, u |-> 117, x |-> 120,
       lbrace |-> 123, rbrace |-> 125, eacute |-> 233]

\* mutant: a lexer for which '0' is no digit
IsDigitOneToNine(c) == c \in Ch.one .. Ch.nine

IsDigit(c) == c \in Ch.zero .. Ch.nine

\* str::len(): the length in bytes of the UTF-8 encoding
Utf8Len(c) == IF c < 128 THEN 1 ELSE IF c < 2048 THEN 2 ELSE IF c < 65536 THEN 3 ELSE 4

RECURSIVE StrByteLen(_)
StrByteLen(s) == IF s = <<>> THEN 0 ELSE Utf8Len(Head(s)) + StrByteLen(Tail(s))

(***************************************************************************)
(* lib.rs: Context and JsonError                                           *)
(***************************************************************************)
DefaultContext == [line |-> 1, column |-> 1]

JsonErrorLexer(context, message) ==
    [variant |-> "Lexer", context |-> context, message |-> message]

JsonErrorParser(context, message) ==
    [variant |-> "Parser", context |-> context, message |-> message]

JsonErrorOther(message) ==
    [variant |-> "Other", context |-> [line |-> 0, column |-> 0], message |-> message]

(***************************************************************************)
(* lexer.rs: Token, TokenInfo                                              *)
(***************************************************************************)
\* A token is [type, val]; val is <<>> for the tokens without payload.
Tok(type) == [type |-> type, val |-> <<>>]
TokenValueBoolean(b) == [type |-> "ValueBoolean", val |-> <<b>>]
TokenValueNumber(n) == [type |-> "ValueNumber", val |-> <<n>>]
TokenValueString(s) == [type |-> "ValueString", val |-> s]

\* Option<LexerResult>
ItemNone == [kind |-> "None"]
ItemPanic == [kind |-> "Panic"]
ItemOk(token_info) == [kind |-> "Ok", token_info |-> token_info]
ItemErr(error) == [kind |-> "Err", error |-> error]

(***************************************************************************)
(* Integer and float parsing of the standard library, as the lexer uses it *)
(***************************************************************************)
HexVal(c) ==
    IF IsDigit(c) THEN c - 48
    ELSE IF c \in 97 .. 102 THEN c - 87
    ELSE IF c \in 65 .. 70 THEN c - 55
    ELSE None

RECURSIVE HexDigits(_, _)
\* the value of the hex digits s continuing acc, or None at the first non-digit
HexDigits(s, acc) ==
    IF s = <<>> THEN acc
    ELSE IF HexVal(Head(s)) = None THEN None
    ELSE HexDigits(Tail(s), acc * 16 + HexVal(Head(s)))

\* u16::from_str_radix(s, 16) and u32::from_str_radix(s, 16) for the at most
\* four characters the lexer passes: one leading '+' is accepted, '-' is not,
\* at least one digit is needed; the value cannot exceed 0xFFFF. None is Err.
from_str_radix_16(s) ==
    IF s # <<>> /\ Head(s) = Ch.plus
    THEN (IF Tail(s) = <<>> THEN None ELSE HexDigits(Tail(s), 0))
    ELSE (IF s = <<>> THEN None ELSE HexDigits(s, 0))

\* std::char::from_u32: None for a surrogate or a value above 0x10FFFF
char_from_u32(v) ==
    IF (55296 <= v /\ v <= 57343) \/ v > 1114111 THEN None ELSE v

RECURSIVE DigitsVal(_, _)
DigitsVal(s, acc) ==
    IF s = <<>> THEN acc ELSE DigitsVal(Tail(s), acc * 10 + (Head(s) - 48))

RECURSIVE DigitPrefixLen(_)
DigitPrefixLen(s) ==
    IF s # <<>> /\ IsDigit(Head(s)) THEN 1 + DigitPrefixLen(Tail(s)) ELSE 0

RECURSIVE Normalise(_, _)
\* mant * 10^exp with the factors of ten moved out of mant
Normalise(mant, exp) ==
    IF mant = 0 THEN [mant |-> 0, exp |-> 0]
    ELSE IF mant % 10 = 0 THEN Normalise(mant \div 10, exp + 1)
    ELSE [mant |-> mant, exp |-> exp]

\* f64::from_str on the text consume_number accumulates (signs, digits, '.',
\* 'e', 'E'):  Sign? (Digit+ | Digit+ '.' Digit* | Digit* '.' Digit+) Exp?
\* with Exp ::= [eE] Sign? Digit+.  The f64 is kept as the decimal it denotes,
\* sign * mant * 10^exp in lowest terms (-0.0 = 0.0); rounding to binary64 is
\* not modelled.  [ok |-> FALSE] is Err.  The text is read left to right:
\* sign, integer digits, '.', fraction digits, exponent.
F64Err == [ok |-> FALSE]

F64Ok(neg, norm) ==
    [ok |-> TRUE, val |-> [neg |-> neg /\ norm.mant # 0, mant |-> norm.mant, exp |-> norm.exp]]

F64Value(neg, int, frac, e) ==
    F64Ok(neg, Normalise(DigitsVal(int \o frac, 0), e - Len(frac)))

F64ExpDigits(neg, int, frac, eneg, s) ==
    IF s = <<>> \/ DigitPrefixLen(s) # Len(s) THEN F64Err
    ELSE F64Value(neg, int, frac, IF eneg THEN 0 - DigitsVal(s, 0) ELSE DigitsVal(s, 0))

F64Exp(neg, int, frac, s) ==
    IF Len(int) + Len(frac) = 0 THEN F64Err
    ELSE IF s = <<>> THEN F64Value(neg, int, frac, 0)
    ELSE IF Head(s) \notin {Ch.e, Ch.E} THEN F64Err
    ELSE IF Len(s) > 1 /\ s[2] \in {Ch.plus, Ch.minus}
    THEN F64ExpDigits(neg, int, frac, s[2] = Ch.minus, SubSeq(s, 3, Len(s)))
    ELSE F64ExpDigits(neg, int, frac, FALSE, Tail(s))

F64Frac(neg, int, s, n) == F64Exp(neg, int, SubSeq(s, 1, n), SubSeq(s, n + 1, Len(s)))

F64Dot(neg, int, s) ==
    IF s # <<>> /\ Head(s) = Ch.dot
    THEN F64Frac(neg, int, Tail(s), DigitPrefixLen(Tail(s)))
    ELSE F64Exp(neg, int, <<>>, s)

F64Int(neg, s, n) == F64Dot(neg, SubSeq(s, 1, n), SubSeq(s, n + 1, Len(s)))

f64_from_str(s) ==
    IF s # <<>> /\ Head(s) \in {Ch.minus, Ch.plus}
    THEN F64Int(Head(s) = Ch.minus, Tail(s), DigitPrefixLen(Tail(s)))
    ELSE F64Int(FALSE, s, DigitPrefixLen(s))

(***************************************************************************)
(* lexer.rs: free functions                                                *)
(***************************************************************************)
OptionAndThenFromU32(v) == IF v = None THEN None ELSE char_from_u32(v)

string_to_unicode_char(number) == OptionAndThenFromU32(from_str_radix_16(number))

IsHighSurrogateValue(high) == high # None /\ high >= 55296 /\ high <= 56319

\* [panic |-> TRUE] when assert!(number.len() == 4) fails, else the bool in v
is_high_surrogate(number) ==
    IF StrByteLen(number) # 4 THEN [panic |-> TRUE, v |-> FALSE]
    ELSE [panic |-> FALSE, v |-> IsHighSurrogateValue(from_str_radix_16(number))]

\* ((h - 0xD800) * 0x400 + l) - 0xDC00 + 0x10000 in u32, evaluated left to
\* right (0xD800 = 55296, 0x400 = 1024, 0xDC00 = 56320, 0x10000 = 65536).
\* A subtraction that goes below zero panics in a build with overflow checks
\* and wraps otherwise.  The wrapping result is the exact one modulo 2^32:
\* the exact one when that is not negative, and a value above 0x10FFFF (which
\* from_u32 refuses) when it is, as it is then at least 2^32 - 2^26.
SurrogateArithmetic(h, l, checks) ==
    IF h = None THEN None
    ELSE IF l = None THEN None
    ELSE IF checks /\ (h < 55296 \/ (h - 55296) * 1024 + l < 56320) THEN Panic
    ELSE IF (h - 55296) * 1024 + l - 56320 + 65536 < 0 THEN None
    ELSE char_from_u32((h - 55296) * 1024 + l - 56320 + 65536)

\* mutant: a conversion that leaves out the 0x10000 of the supplementary planes
convert_surrogate_pairs_no_offset(high, low, checks) ==
    IF StrByteLen(high) # 4 \/ StrByteLen(low) # 4 THEN Panic
    ELSE IF from_str_radix_16(high) = None \/ from_str_radix_16(low) = None THEN None
    ELSE char_from_u32((from_str_radix_16(high) - 55296) * 1024
                           + from_str_radix_16(low) - 56320)

\* Panic when an assert! fails or the arithmetic panics; None or the char otherwise
convert_surrogate_pairs(high, low, checks) ==
    IF StrByteLen(high) # 4 \/ StrByteLen(low) # 4 THEN Panic
    ELSE SurrogateArithmetic(from_str_radix_16(high), from_str_radix_16(low), checks)

(***************************************************************************)
(* lexer.rs: impl Lexer.  Every method takes the Lexer lx and returns the  *)
(* Lexer it leaves behind together with its return value.  A method that   *)
(* goes on with the value of a call is split at that call: the second half *)
(* takes the value as a parameter.                                         *)
(***************************************************************************)
LexerNew(data) ==
    [char_context |-> DefaultContext, token_context |-> DefaultContext, data_iter |-> data]

\* mutant: a TokenInfo that carries the cursor, not the start of the token
build_result_at_cursor(lx, token) == [token |-> token, context |-> lx.char_context]

build_result(lx, token) == [token |-> token, context |-> lx.token_context]

\* mutant: a LexError that carries the start of the token, not the cursor
build_error_at_token(lx, message) == JsonErrorLexer(lx.token_context, message)

build_error(lx, message) == JsonErrorLexer(lx.char_context, message)

set_token_context(lx) == [lx EXCEPT !.token_context = lx.char_context]

peek_char(lx) == IF lx.data_iter = <<>> THEN None ELSE Head(lx.data_iter)

\* the Context after c has been consumed
NextContext(context, c) ==
    IF c = Ch.lf
    THEN [line |-> context.line + 1, column |-> 0]
    ELSE [line |-> context.line, column |-> context.column + 1]

consume_char(lx) ==
    IF lx.data_iter = <<>> THEN [lx |-> lx, c |-> None]
    ELSE [lx |-> [lx EXCEPT !.data_iter = Tail(@),
                            !.char_context = NextContext(@, Head(lx.data_iter))],
          c |-> Head(lx.data_iter)]

\* mutant: a lexer for which a tab is no whitespace
IsWhitespaceNoTab(c) == c \in {Ch.space, Ch.cr, Ch.lf}

IsWhitespace(c) == c \in {Ch.space, Ch.tab, Ch.cr, Ch.lf}

RECURSIVE trim_whitespace_and_peek(_)
trim_whitespace_and_peek(lx) ==
    IF peek_char(lx) = None THEN [lx |-> lx, c |-> None]
    ELSE IF IsWhitespace(peek_char(lx)) THEN trim_whitespace_and_peek(consume_char(lx).lx)
    ELSE [lx |-> lx, c |-> peek_char(lx)]

RECURSIVE consume_n_times_from(_, _, _)
\* consume_n_times with n iterations left, on what consume_char returned
consume_n_times_push(r, n, acc) ==
    IF r.c = None
    THEN [lx |-> r.lx, ok |-> FALSE,
          v |-> build_error(r.lx, "End of stream while waiting for more characters")]
    ELSE consume_n_times_from(r.lx, n - 1, Append(acc, r.c))

consume_n_times_from(lx, n, acc) ==
    IF n = 0 THEN [lx |-> lx, ok |-> TRUE, v |-> acc]
    ELSE consume_n_times_push(consume_char(lx), n, acc)

consume_n_times(lx, n) == consume_n_times_from(lx, n, <<>>)

consume_next_and_emit_match(r, token) ==
    IF r.c = None
    THEN [lx |-> r.lx, item |-> ItemErr(build_error(r.lx, "No more data to read."))]
    ELSE [lx |-> r.lx, item |-> ItemOk(build_result(r.lx, token))]

\* mutant: a token emitted for the character at the cursor, which stays there
consume_next_and_emit_peek(lx, token) ==
    [lx |-> lx, item |-> ItemOk(build_result(lx, token))]

consume_next_and_emit(lx, token) == consume_next_and_emit_match(consume_char(lx), token)

RECURSIVE consume_seq(_, _)
\* mutant: a comparison that takes any character for the one expected
consume_seq_compare_any(r, pattern) ==
    IF r.c = None
    THEN [lx |-> r.lx, ok |-> FALSE,
          v |-> build_error(r.lx, "End of stream while waiting for a char")]
    ELSE consume_seq(r.lx, Tail(pattern))

\* one iteration of consume_seq's for loop, on what consume_char returned
consume_seq_compare(r, pattern) ==
    IF r.c = None
    THEN [lx |-> r.lx, ok |-> FALSE,
          v |-> build_error(r.lx, "End of stream while waiting for a char")]
    ELSE IF r.c # Head(pattern)
    THEN [lx |-> r.lx, ok |-> FALSE, v |-> build_error(r.lx, "Unexpected char")]
    ELSE consume_seq(r.lx, Tail(pattern))

consume_seq(lx, pattern) ==
    IF pattern = <<>> THEN [lx |-> lx, ok |-> TRUE, v |-> <<>>]
    ELSE consume_seq_compare(consume_char(lx), pattern)

\* mutant: a keyword that takes the character after its letters with it
consume_seq_and_emit_result_greedy(r, token) ==
    IF ~r.ok THEN [lx |-> r.lx, item |-> ItemErr(r.v)]
    ELSE [lx |-> consume_char(r.lx).lx, item |-> ItemOk(build_result(r.lx, token))]

consume_seq_and_emit_result(r, token) ==
    IF ~r.ok THEN [lx |-> r.lx, item |-> ItemErr(r.v)]
    ELSE [lx |-> r.lx, item |-> ItemOk(build_result(r.lx, token))]

consume_seq_and_emit(lx, pattern, token) ==
    consume_seq_and_emit_result(consume_seq(lx, pattern), token)

LexErr(lx, message) == [lx |-> lx, item |-> ItemErr(build_error(lx, message))]

RECURSIVE consume_string_loop(_, _, _, _)
\* mutant: a push that does not leave escape mode
consume_string_push_escaping(lx, ch, result, checks) ==
    consume_string_loop(lx, Append(result, ch), TRUE, checks)

\* result.push(transcoded_char); is_escaping = false; continue
consume_string_push(lx, ch, result, checks) ==
    consume_string_loop(lx, Append(result, ch), FALSE, checks)

\* the value of convert_surrogate_pairs(..).ok_or_else(..)?
consume_string_pair(lx, ch, result, checks) ==
    IF ch = Panic THEN [lx |-> lx, item |-> ItemPanic]
    ELSE IF ch = None THEN LexErr(lx, "Issue while parsing provided unicode value.")
    ELSE consume_string_push(lx, ch, result, checks)

\* let low_surrogate = self.consume_n_times(4)?
consume_string_low(high_surrogate, low_surrogate, result, checks) ==
    IF ~low_surrogate.ok THEN [lx |-> low_surrogate.lx, item |-> ItemErr(low_surrogate.v)]
    ELSE consume_string_pair(low_surrogate.lx,
                             convert_surrogate_pairs(high_surrogate, low_surrogate.v, checks),
                             result, checks)

\* self.consume_seq(&['\\', 'u'])?
consume_string_low_prefix(high_surrogate, sq, result, checks) ==
    IF ~sq.ok THEN [lx |-> sq.lx, item |-> ItemErr(sq.v)]
    ELSE consume_string_low(high_surrogate, consume_n_times(sq.lx, 4), result, checks)

\* the value of string_to_unicode_char(..).ok_or_else(..)?
consume_string_basic(lx, ch, result, checks) ==
    IF ch = None THEN LexErr(lx, "Could not convert to unicode")
    ELSE consume_string_push(lx, ch, result, checks)

\* if is_high_surrogate(&unicode_char) { .. } else { .. }
consume_string_surrogate(unicode_char, hs, result, checks) ==
    IF hs.panic THEN [lx |-> unicode_char.lx, item |-> ItemPanic]
    ELSE IF hs.v
    THEN consume_string_low_prefix(unicode_char.v,
                                   consume_seq(unicode_char.lx, <<Ch.backslash, Ch.u>>),
                                   result, checks)
    ELSE consume_string_basic(unicode_char.lx, string_to_unicode_char(unicode_char.v),
                              result, checks)

\* 'u' => { let unicode_char = self.consume_n_times(4)?; .. }
consume_string_unicode(unicode_char, result, checks) ==
    IF ~unicode_char.ok THEN [lx |-> unicode_char.lx, item |-> ItemErr(unicode_char.v)]
    ELSE consume_string_surrogate(unicode_char, is_high_surrogate(unicode_char.v), result, checks)

\* if is_escaping { match c { .. } }
consume_string_escape(lx, c, result, checks) ==
    IF c = Ch.quote THEN consume_string_push(lx, 34, result, checks)
    ELSE IF c = Ch.backslash THEN consume_string_push(lx, 92, result, checks)
    ELSE IF c = Ch.slash THEN consume_string_push(lx, 47, result, checks)
    ELSE IF c = Ch.b THEN consume_string_push(lx, 8, result, checks)
    ELSE IF c = Ch.f THEN consume_string_push(lx, 12, result, checks)
    ELSE IF c = Ch.n THEN consume_string_push(lx, 10, result, checks)
    ELSE IF c = Ch.r THEN consume_string_push(lx, 13, result, checks)
    ELSE IF c = Ch.t THEN consume_string_push(lx, 9, result, checks)
    ELSE IF c = Ch.u THEN consume_string_unicode(consume_n_times(lx, 4), result, checks)
    ELSE LexErr(lx, "is not an escapable character")

\* mutant: a scanner that takes any character but '"' and '\' as it is
consume_string_plain_any(lx, c, result, checks) ==
    IF c = Ch.quote
    THEN [lx |-> lx, item |-> ItemOk(build_result(lx, TokenValueString(result)))]
    ELSE IF c = Ch.backslash THEN consume_string_loop(lx, result, TRUE, checks)
    ELSE consume_string_loop(lx, Append(result, c), FALSE, checks)

\* match c { .. } outside escape mode
consume_string_plain(lx, c, result, checks) ==
    IF c = Ch.quote
    THEN [lx |-> lx, item |-> ItemOk(build_result(lx, TokenValueString(result)))]
    ELSE IF c = 32 \/ c = 33 \/ (35 <= c /\ c <= 91) \/ (93 <= c /\ c <= 1114111)
    THEN consume_string_loop(lx, Append(result, c), FALSE, checks)
    ELSE IF c = Ch.backslash THEN consume_string_loop(lx, result, TRUE, checks)
    ELSE LexErr(lx, "Not a valid character code")

\* one iteration of the loop, on what consume_char returned
consume_string_char(r, result, is_escaping, checks) ==
    IF r.c = None THEN LexErr(r.lx, "EOF encountered while recognizing a string")
    ELSE IF is_escaping THEN consume_string_escape(r.lx, r.c, result, checks)
    ELSE consume_string_plain(r.lx, r.c, result, checks)

\* the loop of consume_string; result and is_escaping are its locals
consume_string_loop(lx, result, is_escaping, checks) ==
    consume_string_char(consume_char(lx), result, is_escaping, checks)

consume_string_open(r, checks) ==
    IF r.c # Ch.quote THEN [lx |-> r.lx, item |-> ItemPanic]
    ELSE consume_string_loop(r.lx, <<>>, FALSE, checks)

consume_string(lx, checks) == consume_string_open(consume_char(lx), checks)

\* number.push(c); self.consume_char();
consume_number_push(st, c) ==
    [st EXCEPT !.number = Append(@, c), !.lx = consume_char(st.lx).lx]

\* match step { .. } for the peeked character c, on the locals
\* st = [lx, step, number, brk, panic]; brk is set by break 'outer
consume_number_step(st, c) ==
    CASE st.step = "Minus" ->
            IF c = Ch.minus THEN [consume_number_push(st, c) EXCEPT !.step = "IntFirst"]
            ELSE IF IsDigit(c) THEN [st EXCEPT !.step = "IntFirst"]
            ELSE [st EXCEPT !.panic = TRUE, !.brk = TRUE]
      [] st.step = "IntFirst" ->
            IF c = Ch.zero THEN [consume_number_push(st, c) EXCEPT !.step = "FracOrExp"]
            ELSE IF 49 <= c /\ c <= 57 THEN [consume_number_push(st, c) EXCEPT !.step = "Int"]
            ELSE [st EXCEPT !.brk = TRUE]
      [] st.step = "Int" ->
            IF c = Ch.dot THEN [consume_number_push(st, c) EXCEPT !.step = "FracFirst"]
            ELSE IF c \in {Ch.e, Ch.E} THEN [consume_number_push(st, c) EXCEPT !.step = "ExpSign"]
            ELSE IF IsDigit(c) THEN consume_number_push(st, c)
            ELSE [st EXCEPT !.brk = TRUE]
      [] st.step = "FracOrExp" ->
            IF c = Ch.dot THEN [consume_number_push(st, c) EXCEPT !.step = "FracFirst"]
            ELSE IF c \in {Ch.e, Ch.E} THEN [consume_number_push(st, c) EXCEPT !.step = "ExpSign"]
            ELSE [st EXCEPT !.brk = TRUE]
      [] st.step = "FracFirst" ->
            IF IsDigit(c) THEN [consume_number_push(st, c) EXCEPT !.step = "Frac"]
            ELSE [st EXCEPT !.brk = TRUE]
      [] st.step = "Frac" ->
            IF c \in {Ch.e, Ch.E} THEN [consume_number_push(st, c) EXCEPT !.step = "ExpSign"]
            ELSE IF IsDigit(c) THEN consume_number_push(st, c)
            ELSE [st EXCEPT !.brk = TRUE]
      [] st.step = "ExpSign" ->
            IF c \in {Ch.plus, Ch.minus} THEN [consume_number_push(st, c) EXCEPT !.step = "ExpFirst"]
            ELSE IF IsDigit(c) THEN [st EXCEPT !.step = "ExpFirst"]
            ELSE [st EXCEPT !.brk = TRUE]
      [] st.step = "ExpFirst" ->
            IF IsDigit(c) THEN [consume_number_push(st, c) EXCEPT !.step = "Exp"]
            ELSE [st EXCEPT !.brk = TRUE]
      [] st.step = "Exp" ->
            IF IsDigit(c) THEN consume_number_push(st, c)
            ELSE [st EXCEPT !.brk = TRUE]

\* one iteration of the 'outer loop
consume_number_iter(st) ==
    IF peek_char(st.lx) = None THEN [st EXCEPT !.brk = TRUE]
    ELSE consume_number_step(st, peek_char(st.lx))

RECURSIVE consume_number_loop(_)
consume_number_loop(st) ==
    IF st.brk THEN st ELSE consume_number_loop(consume_number_iter(st))

\* f64::from_str(number.as_str()).map(..).map_err(..)
consume_number_convert(lx, val) ==
    IF val.ok THEN [lx |-> lx, item |-> ItemOk(build_result(lx, TokenValueNumber(val.val)))]
    ELSE LexErr(lx, "Could not convert to a number")

\* mutant: a scanner that takes the character that ended the number with it
consume_number_end_eager(st) ==
    IF st.panic THEN [lx |-> st.lx, item |-> ItemPanic]
    ELSE consume_number_convert(consume_char(st.lx).lx, f64_from_str(st.number))

consume_number_end(st) ==
    IF st.panic THEN [lx |-> st.lx, item |-> ItemPanic]
    ELSE consume_number_convert(st.lx, f64_from_str(st.number))

consume_number(lx) ==
    consume_number_end(consume_number_loop(
        [lx |-> lx, step |-> "Minus", number |-> <<>>, brk |-> FALSE, panic |-> FALSE]))

\* the match on the first significant character c, with the token context set
LexerMatch(lx, c, checks) ==
    IF c = Ch.f
    THEN consume_seq_and_emit(lx, <<Ch.f, Ch.a, Ch.l, Ch.s, Ch.e>>, TokenValueBoolean(FALSE))
    ELSE IF c = Ch.t
    THEN consume_seq_and_emit(lx, <<Ch.t, Ch.r, Ch.u, Ch.e>>, TokenValueBoolean(TRUE))
    ELSE IF c = Ch.n
    THEN consume_seq_and_emit(lx, <<Ch.n, Ch.u, Ch.l, Ch.l>>, Tok("ValueNull"))
    ELSE IF c = Ch.colon THEN consume_next_and_emit(lx, Tok("SeparatorName"))
    ELSE IF c = Ch.comma THEN consume_next_and_emit(lx, Tok("SeparatorValue"))
    ELSE IF c = Ch.lbrace THEN consume_next_and_emit(lx, Tok("ObjectStart"))
    ELSE IF c = Ch.rbrace THEN consume_next_and_emit(lx, Tok("ObjectEnd"))
    ELSE IF c = Ch.lbracket THEN consume_next_and_emit(lx, Tok("ArrayStart"))
    ELSE IF c = Ch.rbracket THEN consume_next_and_emit(lx, Tok("ArrayEnd"))
    ELSE IF c = Ch.quote THEN consume_string(lx, checks)
    ELSE IF c = Ch.minus \/ IsDigit(c) THEN consume_number(lx)
    ELSE LexErr(lx, "The character is unexpected")

\* let c = self.trim_whitespace_and_peek()?; self.set_token_context(); ..
LexerPeeked(p, checks) ==
    IF p.c = None THEN [lx |-> p.lx, item |-> ItemNone]
    ELSE LexerMatch(set_token_context(p.lx), p.c, checks)

\* Iterator::next: the Lexer left behind and the Option<LexerResult> returned
LexerNext(lx, checks) == LexerPeeked(trim_whitespace_and_peek(lx), checks)

(***************************************************************************)
(* parser.rs: Json                                                         *)
(***************************************************************************)
\* A Json is [kind, v]: v is <<>> for Null, <<n>> for Number, <<b>> for
\* Boolean, the text for String, the sequence of elements for Array and the
\* function from keys to values for Object (a HashMap).
JsonNull == [kind |-> "Null", v |-> <<>>]
JsonNumber(n) == [kind |-> "Number", v |-> <<n>>]
JsonBoolean(b) == [kind |-> "Boolean", v |-> <<b>>]
JsonString(s) == [kind |-> "String", v |-> s]
JsonArray(vec) == [kind |-> "Array", v |-> vec]
JsonObject(map) == [kind |-> "Object", v |-> map]

EmptyMap == [k \in {} |-> JsonNull]

\* HashMap::insert: a later insert of the same key replaces the value
\* mutant: an insert that keeps the value a key already has
MapInsertKeepsFirst(map, key, value) ==
    [k \in DOMAIN map \cup {key} |-> IF k \in DOMAIN map THEN map[k] ELSE value]

\* mutant: an insert that leaves the map as it was
MapInsertForgets(map, key, value) == map

MapInsert(map, key, value) ==
    [k \in DOMAIN map \cup {key} |-> IF k = key THEN value ELSE map[k]]

\* Result<_, JsonError> of a parser method, or that it panicked
ResOk == [kind |-> "Ok"]
ResErr(error) == [kind |-> "Err", error |-> error]
ResPanic == [kind |-> "Panic"]

(***************************************************************************)
(* parser.rs: impl Parser.  p is the Parser (its lexer, its lookahead)     *)
(* together with the record of the calls it made to the lexer.             *)
(***************************************************************************)
NoTokenInfo == [token |-> Tok("None"), context |-> [line |-> 0, column |-> 0]]

\* p after self.lexer.next() returned r
Called(p, r) == [p EXCEPT !.before = p.lexer, !.lexer = r.lx, !.items = Append(@, r.item)]

\* self.lexer.next()
CallNext(p, checks) == Called(p, LexerNext(p.lexer, checks))

LastItem(p) == p.items[Len(p.items)]

build_parser_error(p, message) ==
    JsonErrorParser(p.current_token_info.context, message)

\* mutant: a parser that reports a lexer error as the end of the input
ItemFailureMasked(item) ==
    IF item.kind = "Panic" THEN ResPanic
    ELSE ResErr(JsonErrorOther("No data to parse"))

\* .ok_or_else(|| JsonError::Other(..))? and the ? on the LexerResult
ItemFailure(item) ==
    IF item.kind = "None" THEN ResErr(JsonErrorOther("No data to parse"))
    ELSE IF item.kind = "Panic" THEN ResPanic
    ELSE ResErr(item.error)

ParserNewStore(q, item) ==
    IF item.kind # "Ok" THEN [p |-> q, res |-> ItemFailure(item)]
    ELSE [p |-> [q EXCEPT !.current_token_info = item.token_info], res |-> ResOk]

ParserNewCalled(q) == ParserNewStore(q, LastItem(q))

\* Parser::new: the first lexer.next() fills the lookahead
ParserNew(p, checks) == ParserNewCalled(CallNext(p, checks))

advance_store(q, item) ==
    IF item.kind # "Ok" THEN [p |-> q, res |-> ItemFailure(item)]
    ELSE [p |-> [q EXCEPT !.current_token_info = item.token_info], res |-> ResOk]

advance_called(q) == advance_store(q, LastItem(q))

advance(p, checks) == advance_called(CallNext(p, checks))

advance_and_validate_compare(q, item, token) ==
    IF item.kind # "Ok" THEN [p |-> q, res |-> ItemFailure(item)]
    ELSE IF item.token_info.token = token THEN [p |-> q, res |-> ResOk]
    ELSE [p |-> q, res |-> ResErr(build_parser_error(q, "Was waiting a token but received another"))]

advance_and_validate_called(q, token) == advance_and_validate_compare(q, LastItem(q), token)

advance_and_validate(p, token, checks) == advance_and_validate_called(CallNext(p, checks), token)

(***************************************************************************)
(* The state machine                                                       *)
(***************************************************************************)
NoJson == [kind |-> "None", v |-> <<>>]
Running == [kind |-> "Running"]
Frame(fn, acc, key) == [fn |-> fn, acc |-> acc, key |-> key]
Top(stk) == stk[Len(stk)]
Pop(stk) == SubSeq(stk, 1, Len(stk) - 1)

\* the Parser of the current state
P == [lexer |-> lexer, before |-> before, items |-> items,
      current_token_info |-> current_token_info]

Commit(p) ==
    /\ lexer' = p.lexer
    /\ before' = p.before
    /\ items' = p.items
    /\ current_token_info' = p.current_token_info

\* mutant: a parser that, at its first error, goes on as if an array began
FailSecond(res) ==
    /\ pc' = (IF outcome.kind = "Running" THEN "parse_array" ELSE "done")
    /\ outcome' = res
    /\ stack' = (IF outcome.kind = "Running"
                 THEN <<Frame("parse_array", <<>>, <<>>)>> ELSE <<>>)
    /\ ret' = NoJson

\* an Err (or a panic) propagates through every open frame out of parse_json
Fail(res) ==
    /\ pc' = "done"
    /\ outcome' = res
    /\ stack' = <<>>
    /\ ret' = NoJson

\* parse_json_value returns Ok(value) to the frame stk ends with, or to parse_json
Return(value, stk) ==
    /\ stack' = stk
    /\ ret' = value
    /\ IF stk = <<>>
       THEN pc' = "done" /\ outcome' = [kind |-> "Ok", value |-> value]
       ELSE /\ pc' = (IF Top(stk).fn = "parse_array" THEN "array_push" ELSE "object_insert")
            /\ outcome' = outcome

\* let mut parser = Parser::new(lexer)?; parser.parse()
ParseJsonStarted(r) ==
    /\ Commit(r.p)
    /\ IF r.res.kind = "Ok"
       THEN pc' = "value" /\ UNCHANGED <<stack, ret, outcome>>
       ELSE Fail(r.res)

\* parse_json up to the call of parser.parse(): Lexer::new (in Init) and Parser::new
ParseJsonStart ==
    /\ pc = "new"
    /\ ParseJsonStarted(ParserNew(P, overflow_checks))
    /\ UNCHANGED <<input, overflow_checks>>

ParseJsonValueMatch(token) ==
    IF token.type = "ArrayStart"
    THEN /\ pc' = "parse_array"
         /\ stack' = Append(stack, Frame("parse_array", <<>>, <<>>))
         /\ UNCHANGED <<ret, outcome>>
    ELSE IF token.type = "ObjectStart"
    THEN /\ pc' = "parse_object"
         /\ stack' = Append(stack, Frame("parse_object", EmptyMap, <<>>))
         /\ UNCHANGED <<ret, outcome>>
    ELSE IF token.type = "ValueNull" THEN Return(JsonNull, stack)
    ELSE IF token.type = "ValueNumber" THEN Return(JsonNumber(token.val[1]), stack)
    ELSE IF token.type = "ValueBoolean" THEN Return(JsonBoolean(token.val[1]), stack)
    ELSE IF token.type = "ValueString" THEN Return(JsonString(token.val), stack)
    ELSE Fail(ResErr(build_parser_error(P, "The token is not valid here")))

\* mutant: a parse_json that refuses text after a top-level leaf
ParseJsonValueStrict ==
    /\ pc = "value"
    /\ IF /\ stack = <<>>
          /\ current_token_info.token.type \notin {"ArrayStart", "ObjectStart"}
          /\ trim_whitespace_and_peek(lexer).c # None
       THEN Fail(ResErr(JsonErrorOther("Trailing characters")))
       ELSE ParseJsonValueMatch(current_token_info.token)
    /\ UNCHANGED <<input, overflow_checks, lexer, before, items, current_token_info>>

\* mutant: a parse_json_value that advances past a leaf before it returns it
ParseJsonValueEager ==
    /\ pc = "value"
    /\ IF current_token_info.token.type
            \in {"ValueNull", "ValueNumber", "ValueBoolean", "ValueString"}
       THEN /\ Commit(advance(P, overflow_checks).p)
            /\ ParseJsonValueMatch(current_token_info.token)
       ELSE /\ ParseJsonValueMatch(current_token_info.token)
            /\ UNCHANGED <<lexer, before, items, current_token_info>>
    /\ UNCHANGED <<input, overflow_checks>>

\* parse_json_value: the match on the lookahead; a container is entered,
\* a leaf is returned to the caller
ParseJsonValue ==
    /\ pc = "value"
    /\ ParseJsonValueMatch(current_token_info.token)
    /\ UNCHANGED <<input, overflow_checks, lexer, before, items, current_token_info>>

\* after the first self.advance()? of parse_array / parse_object: an empty
\* container is returned, or the loop is entered at pc `loop`
ContainerBegun(a, end, empty, loop) ==
    /\ Commit(a.p)
    /\ IF a.res.kind # "Ok" THEN Fail(a.res)
       ELSE IF a.p.current_token_info.token.type = end THEN Return(empty, Pop(stack))
       ELSE pc' = loop /\ UNCHANGED <<stack, ret, outcome>>

\* parse_array from its entry to the first element (or the return of an empty Vec)
ParseArrayBegin ==
    /\ pc = "parse_array"
    /\ IF current_token_info.token # Tok("ArrayStart")
       THEN Commit(P) /\ Fail(ResPanic)
       ELSE ContainerBegun(advance(P, overflow_checks), "ArrayEnd", JsonArray(<<>>), "value")
    /\ UNCHANGED <<input, overflow_checks>>

\* after the last self.advance()? of a loop iteration: the next iteration
\* starts at pc `loop` with the updated vec / map
ContainerNext(b, acc, loop) ==
    /\ Commit(b.p)
    /\ IF b.res.kind # "Ok" THEN Fail(b.res)
       ELSE /\ pc' = loop
            /\ stack' = [stack EXCEPT ![Len(stack)].acc = acc]
            /\ UNCHANGED <<ret, outcome>>

\* after the self.advance()? that follows a value: the match on the lookahead
\* mutant: a loop that takes any token but a ',' for the closing one
ContainerSeparatorLax(a, acc, end, value, message, loop) ==
    IF a.res.kind # "Ok" THEN Commit(a.p) /\ Fail(a.res)
    ELSE IF a.p.current_token_info.token.type # "SeparatorValue"
    THEN Commit(a.p) /\ Return(value, Pop(stack))
    ELSE ContainerNext(advance(a.p, overflow_checks), acc, loop)

ContainerSeparator(a, acc, end, value, message, loop) ==
    IF a.res.kind # "Ok" THEN Commit(a.p) /\ Fail(a.res)
    ELSE IF a.p.current_token_info.token.type = end
    THEN Commit(a.p) /\ Return(value, Pop(stack))
    ELSE IF a.p.current_token_info.token.type # "SeparatorValue"
    THEN Commit(a.p) /\ Fail(ResErr(build_parser_error(a.p, message)))
    ELSE ContainerNext(advance(a.p, overflow_checks), acc, loop)

ParseArrayPushed(vec) ==
    ContainerSeparator(advance(P, overflow_checks), vec, "ArrayEnd", JsonArray(vec),
                       "Was waiting a ',' or ']'", "value")

\* parse_array's loop from vec.push(value) to the next parse_json_value (or the return)
ParseArrayPush ==
    /\ pc = "array_push"
    /\ ParseArrayPushed(Append(Top(stack).acc, ret))
    /\ UNCHANGED <<input, overflow_checks>>

\* parse_object from its entry to the first key (or the return of an empty HashMap)
ParseObjectBegin ==
    /\ pc = "parse_object"
    /\ IF current_token_info.token # Tok("ObjectStart")
       THEN Commit(P) /\ Fail(ResPanic)
       ELSE ContainerBegun(advance(P, overflow_checks), "ObjectEnd", JsonObject(EmptyMap),
                           "object_key")
    /\ UNCHANGED <<input, overflow_checks>>

\* self.advance()? after the ':'; then parse_json_value
ParseObjectValue(a, key) ==
    /\ Commit(a.p)
    /\ IF a.res.kind # "Ok" THEN Fail(a.res)
       ELSE /\ pc' = "value"
            /\ stack' = [stack EXCEPT ![Len(stack)].key = key]
            /\ UNCHANGED <<ret, outcome>>

\* self.advance_and_validate(Token::SeparatorName)?
ParseObjectColon(v, key) ==
    IF v.res.kind # "Ok" THEN Commit(v.p) /\ Fail(v.res)
    ELSE ParseObjectValue(advance(v.p, overflow_checks), key)

\* parse_object's loop from the match on the key to the parse_json_value of its value
ParseObjectKey ==
    /\ pc = "object_key"
    /\ IF current_token_info.token.type # "ValueString"
       THEN Commit(P) /\ Fail(ResErr(build_parser_error(P, "Was waiting a string")))
       ELSE ParseObjectColon(advance_and_validate(P, Tok("SeparatorName"), overflow_checks),
                             current_token_info.token.val)
    /\ UNCHANGED <<input, overflow_checks>>

ParseObjectInserted(map) ==
    ContainerSeparator(advance(P, overflow_checks), map, "ObjectEnd", JsonObject(map),
                       "Was waiting a ',' or '}'", "object_key")

\* parse_object's loop from map.insert(key, value) to the next key (or the return)
ParseObjectInsert ==
    /\ pc = "object_insert"
    /\ ParseObjectInserted(MapInsert(Top(stack).acc, Top(stack).key, ret))
    /\ UNCHANGED <<input, overflow_checks>>

LexerIterated(q, item) ==
    /\ Commit(q)
    /\ pc' = (IF item.kind \in {"None", "Panic"} THEN "lex_done" ELSE "lex")
    /\ outcome' = (IF item.kind = "Panic" THEN ResPanic ELSE outcome)

LexerCalled(q) == LexerIterated(q, LastItem(q))

\* A caller that iterates over the Lexer itself (as the tests of lexer.rs do):
\* one call of next(); it stops at None or at a panic.
LexerIterate ==
    /\ pc = "lex"
    /\ Len(items) < MaxCalls
    /\ LexerCalled(CallNext(P, overflow_checks))
    /\ UNCHANGED <<input, overflow_checks, stack, ret>>

(***************************************************************************)
(* Inputs                                                                  *)
(***************************************************************************)
RECURSIVE Concats(_, _)
\* the texts made of at most n pieces of the set pieces
Extend(shorter, pieces) == shorter \cup {s \o q : s \in shorter, q \in pieces}

Concats(pieces, n) ==
    IF n = 0 THEN {<<>>} ELSE Extend(Concats(pieces, n - 1), pieces)

\* [ ] { } : , "a" 1, the key "a" with its colon, a character no token
\* starts with, and a run of whitespace with a line break
StructurePieces ==
    {<<Ch.lbracket>>, <<Ch.rbracket>>, <<Ch.lbrace>>, <<Ch.rbrace>>, <<Ch.colon>>,
     <<Ch.comma>>, <<Ch.quote, Ch.a, Ch.quote>>, <<Ch.one>>,
     <<Ch.quote, Ch.a, Ch.quote, Ch.colon>>, <<Ch.x>>, <<Ch.space, Ch.lf>>}

WhitespacePieces == {<<Ch.space>>, <<Ch.tab>>, <<Ch.cr>>, <<Ch.lf>>}

\* what can stand between the quotes of a string: a plain character, a tab,
\* the escapes \n \" \/ \b \f \r \t, a lone backslash (that escapes what
\* follows it: a backslash, an 'a'), and \u escapes of a BMP character
\* (0041), a high surrogate (D800, dbff), a low surrogate (DC00), with a
\* character outside ASCII among the four (00e9 written 00<e9>0), with a sign
\* (+041), and cut short (\u00); and the pair \uD83D\udc31 in one piece
EscapePieces ==
    {<<Ch.a>>,
     <<Ch.tab>>,
     <<Ch.backslash, Ch.n>>,
     <<Ch.backslash, Ch.quote>>,
     <<Ch.backslash, Ch.slash>>,
     <<Ch.backslash, Ch.b>>,
     <<Ch.backslash, Ch.f>>,
     <<Ch.backslash, Ch.r>>,
     <<Ch.backslash, Ch.t>>,
     <<Ch.backslash>>,
     <<Ch.backslash, Ch.u, Ch.zero, Ch.zero, 52, Ch.one>>,
     <<Ch.backslash, Ch.u, Ch.D, 56, Ch.zero, Ch.zero>>,
     <<Ch.backslash, Ch.u, 100, Ch.b, Ch.f, Ch.f>>,
     <<Ch.backslash, Ch.u, Ch.D, Ch.C, Ch.zero, Ch.zero>>,
     <<Ch.backslash, Ch.u, Ch.zero, Ch.zero, Ch.eacute, Ch.zero>>,
     <<Ch.backslash, Ch.u, Ch.plus, Ch.zero, 52, Ch.one>>,
     <<Ch.backslash, Ch.u, Ch.zero, Ch.zero>>,
     <<Ch.backslash, Ch.u, Ch.D, 56, 51, Ch.D, Ch.backslash, Ch.u, 100, 99, 51, Ch.one>>}

\* an opening quote, a body, and the closing quote or not
StringInputs ==
    {<<Ch.quote>> \o body \o close :
        body \in Concats(EscapePieces, MaxEscapes), close \in {<<>>, <<Ch.quote>>}}

\* whitespace, null in pieces (n, nu, l), true and false in two halves,
\* structure, a number, a string and a character no token starts with
LexerPieces ==
    {<<Ch.space>>, <<Ch.lf>>, <<Ch.tab, Ch.cr>>, <<Ch.n>>, <<Ch.n, Ch.u>>, <<Ch.l>>,
     <<Ch.t, Ch.r>>, <<Ch.u, Ch.e>>, <<Ch.f, Ch.a, Ch.l>>, <<Ch.s, Ch.e>>,
     <<Ch.lbracket>>, <<Ch.rbracket>>, <<Ch.one, Ch.dot, Ch.zero>>,
     <<Ch.quote, Ch.a, Ch.quote>>, <<Ch.x>>}

\* the characters of numbers, one number with a fraction, and what may
\* follow a number
NumberPieces ==
    {<<Ch.minus>>, <<Ch.zero>>, <<Ch.one>>, <<Ch.dot>>, <<Ch.e>>, <<Ch.E>>, <<Ch.plus>>,
     <<Ch.one, Ch.dot, Ch.zero>>, <<Ch.space>>, <<Ch.comma>>}

LexerInputs == Concats(LexerPieces, MaxLexerPieces)

\* the structural tokens, the keywords, and whitespace
SimplePieces ==
    {<<Ch.lbrace>>, <<Ch.rbrace>>, <<Ch.lbracket>>, <<Ch.rbracket>>, <<Ch.colon>>,
     <<Ch.comma>>, <<Ch.t, Ch.r, Ch.u, Ch.e>>, <<Ch.f, Ch.a, Ch.l, Ch.s, Ch.e>>,
     <<Ch.n, Ch.u, Ch.l, Ch.l>>, <<Ch.space>>, <<Ch.cr, Ch.lf>>}

SimpleInputs == Concats(SimplePieces, MaxSimplePieces)

ParseInputs ==
    Concats(StructurePieces, MaxPieces)
        \cup Concats(WhitespacePieces, MaxWhitespace)
        \cup StringInputs

NumberInputs == Concats(NumberPieces, MaxNumberPieces)

\* the members "a":1  "a":"b"  "b":1  "b":"b" of an object
MemberPieces ==
    {<<Ch.quote, Ch.a, Ch.quote, Ch.colon, Ch.one>>,
     <<Ch.quote, Ch.a, Ch.quote, Ch.colon, Ch.quote, Ch.b, Ch.quote>>,
     <<Ch.quote, Ch.b, Ch.quote, Ch.colon, Ch.one>>,
     <<Ch.quote, Ch.b, Ch.quote, Ch.colon, Ch.quote, Ch.b, Ch.quote>>}

RECURSIVE MemberLists(_)
\* the texts of at most n of these members (one at least) with a ',' between
MemberLists(n) ==
    IF n = 1 THEN MemberPieces
    ELSE MemberLists(n - 1)
            \cup {ms \o <<Ch.comma>> \o m : ms \in MemberLists(n - 1), m \in MemberPieces}

\* the objects of at most MaxMembers members, keys repeated or not
ObjectInputs == {<<Ch.lbrace>> \o ms \o <<Ch.rbrace>> : ms \in MemberLists(MaxMembers)}

\* The build profile decides only what the u32 arithmetic of
\* convert_surrogate_pairs does on overflow, and that runs only for an escape:
\* an input without a backslash behaves the same in both, and is run in one.
Profiles(data) ==
    IF \E i \in 1 .. Len(data) : data[i] = Ch.backslash THEN BOOLEAN ELSE {FALSE}

InitCommon ==
    /\ overflow_checks \in Profiles(input)
    /\ lexer = LexerNew(input)
    /\ before = LexerNew(input)
    /\ items = <<>>
    /\ current_token_info = NoTokenInfo
    /\ stack = <<>>
    /\ ret = NoJson
    /\ outcome = Running

\* parse_json(input)
Init ==
    /\ input \in ParseInputs \/ input \in LexerInputs \/ input \in ObjectInputs
    /\ pc = "new"
    /\ InitCommon

Next ==
    \/ ParseJsonStart
    \/ ParseJsonValue
    \/ ParseArrayBegin
    \/ ParseArrayPush
    \/ ParseObjectBegin
    \/ ParseObjectKey
    \/ ParseObjectInsert

Spec == Init /\ [][Next]_vars

\* Lexer::new(input) and a caller iterating over it
InitLexer ==
    /\ input \in LexerInputs \/ input \in SimpleInputs
    /\ pc = "lex"
    /\ InitCommon

NextLexer == LexerIterate

SpecLexer == InitLexer /\ [][NextLexer]_vars

\* the same on texts of the characters numbers are made of
InitNumbers ==
    /\ input \in NumberInputs
    /\ pc = "lex"
    /\ InitCommon

SpecNumbers == InitNumbers /\ [][NextLexer]_vars

(***************************************************************************)
(* The JSON grammar over tokens, and the tree a valid token sequence       *)
(* denotes (what the claims measure the parser against)                    *)
(***************************************************************************)
AllOk(its) == \A i \in 1 .. Len(its) : its[i].kind = "Ok"

\* the tokens of a sequence of Ok items
TokensOf(its) == [i \in 1 .. Len(its) |-> its[i].token_info.token]

\* the tokens the parser has pulled from the lexer
Pulled == TokensOf(items)

IsLeafToken(t) == t.type \in {"ValueNull", "ValueNumber", "ValueBoolean", "ValueString"}

Inner(ts) == SubSeq(ts, 2, Len(ts) - 1)

RECURSIVE IsValue(_), IsElements(_), IsMembers(_)
\* value ::= leaf | '[' elements? ']' | '{' members? '}'
IsValue(ts) ==
    \/ Len(ts) = 1 /\ IsLeafToken(ts[1])
    \/ /\ Len(ts) >= 2
       /\ ts[1].type = "ArrayStart"
       /\ ts[Len(ts)].type = "ArrayEnd"
       /\ (Len(ts) = 2 \/ IsElements(Inner(ts)))
    \/ /\ Len(ts) >= 2
       /\ ts[1].type = "ObjectStart"
       /\ ts[Len(ts)].type = "ObjectEnd"
       /\ (Len(ts) = 2 \/ IsMembers(Inner(ts)))

\* elements ::= value | value ',' elements
IsElements(ts) ==
    \/ IsValue(ts)
    \/ \E i \in 2 .. Len(ts) - 1 :
          /\ ts[i].type = "SeparatorValue"
          /\ IsValue(SubSeq(ts, 1, i - 1))
          /\ IsElements(SubSeq(ts, i + 1, Len(ts)))

\* member ::= string ':' value
IsMember(ts) ==
    /\ Len(ts) >= 3
    /\ ts[1].type = "ValueString"
    /\ ts[2].type = "SeparatorName"
    /\ IsValue(SubSeq(ts, 3, Len(ts)))

\* members ::= member | member ',' members
IsMembers(ts) ==
    \/ IsMember(ts)
    \/ \E i \in 4 .. Len(ts) - 1 :
          /\ ts[i].type = "SeparatorValue"
          /\ IsMember(SubSeq(ts, 1, i - 1))
          /\ IsMembers(SubSeq(ts, i + 1, Len(ts)))

\* where the first element (member) of a list of several ends
FirstSplit(ts) ==
    CHOOSE i \in 2 .. Len(ts) - 1 :
        /\ ts[i].type = "SeparatorValue"
        /\ (IsValue(SubSeq(ts, 1, i - 1)) \/ IsMember(SubSeq(ts, 1, i - 1)))
        /\ (IsElements(SubSeq(ts, i + 1, Len(ts))) \/ IsMembers(SubSeq(ts, i + 1, Len(ts))))

\* the object of a sequence of <<key, value>> pairs: each key maps to the
\* value of its last pair
ObjectOf(pairs) ==
    [k \in {pairs[i][1] : i \in 1 .. Len(pairs)} |->
        pairs[CHOOSE i \in 1 .. Len(pairs) :
                 /\ pairs[i][1] = k
                 /\ \A j \in i + 1 .. Len(pairs) : pairs[j][1] # k][2]]

RECURSIVE TreeOf(_), ElementsOf(_), MembersOf(_)
\* the Json a valid token sequence denotes
TreeOf(ts) ==
    IF Len(ts) = 1
    THEN CASE ts[1].type = "ValueNull" -> JsonNull
           [] ts[1].type = "ValueNumber" -> JsonNumber(ts[1].val[1])
           [] ts[1].type = "ValueBoolean" -> JsonBoolean(ts[1].val[1])
           [] ts[1].type = "ValueString" -> JsonString(ts[1].val)
    ELSE IF ts[1].type = "ArrayStart"
    THEN JsonArray(IF Len(ts) = 2 THEN <<>> ELSE ElementsOf(Inner(ts)))
    ELSE JsonObject(IF Len(ts) = 2 THEN EmptyMap ELSE ObjectOf(MembersOf(Inner(ts))))

ElementsOf(ts) ==
    IF IsValue(ts) THEN <<TreeOf(ts)>>
    ELSE <<TreeOf(SubSeq(ts, 1, FirstSplit(ts) - 1))>>
             \o ElementsOf(SubSeq(ts, FirstSplit(ts) + 1, Len(ts)))

MembersOf(ts) ==
    IF IsMember(ts) THEN << <<ts[1].val, TreeOf(SubSeq(ts, 3, Len(ts)))>> >>
    ELSE << <<ts[1].val, TreeOf(SubSeq(ts, 3, FirstSplit(ts) - 1))>> >>
             \o MembersOf(SubSeq(ts, FirstSplit(ts) + 1, Len(ts)))

RECURSIVE LexAll(_, _, _)
\* every item the Lexer yields for the text left in lx, up to the first that
\* is no token (at most n of them)
LexAllOn(r, checks, n) ==
    IF r.item.kind # "Ok" THEN <<r.item>> ELSE <<r.item>> \o LexAll(r.lx, checks, n - 1)

LexAll(lx, checks, n) ==
    IF n = 0 THEN <<>> ELSE LexAllOn(LexerNext(lx, checks), checks, n)

\* the input lexes to tokens up to its end
InputItems == LexAll(LexerNew(input), overflow_checks, Len(input) + 1)

InputIsTokens ==
    /\ InputItems[Len(InputItems)].kind = "None"
    /\ AllOk(SubSeq(InputItems, 1, Len(InputItems) - 1))

InputTokens == TokensOf(SubSeq(InputItems, 1, Len(InputItems) - 1))

IsWhitespaceOnly(data) ==
    \A i \in 1 .. Len(data) : data[i] \in {Ch.space, Ch.tab, Ch.cr, Ch.lf}

(***************************************************************************)
(* The last call of next(): where its token starts in the input, and what  *)
(* it consumed                                                             *)
(***************************************************************************)
JsonWhitespace == {Ch.space, Ch.tab, Ch.cr, Ch.lf}

RECURSIVE SkipWhitespace(_)
SkipWhitespace(data) ==
    IF data # <<>> /\ Head(data) \in JsonWhitespace THEN SkipWhitespace(Tail(data)) ELSE data

Last == items[Len(items)]

\* the text left at the last call, from its first significant character
TokenText == SkipWhitespace(before.data_iter)

\* the number of characters of the input before that character
TokenStart == Len(input) - Len(TokenText)

\* the characters the last call consumed from that character on
Consumed == SubSeq(TokenText, 1, Len(TokenText) - Len(lexer.data_iter))

RECURSIVE ContextAfter(_, _)
\* the cursor that starts at context, after it went over text
ContextAfter(context, text) ==
    IF text = <<>> THEN context
    ELSE ContextAfter(NextContext(context, Head(text)), Tail(text))

\* the cursor at the first significant character of the last call
StartContext == ContextAfter(DefaultContext, SubSeq(input, 1, TokenStart))

\* the 1-based line and column of the character that follows text
OneBasedLine(text) == 1 + Cardinality({i \in 1 .. Len(text) : text[i] = Ch.lf})

LastNewline(text) ==
    IF \E i \in 1 .. Len(text) : text[i] = Ch.lf
    THEN CHOOSE i \in 1 .. Len(text) :
             text[i] = Ch.lf /\ \A j \in i + 1 .. Len(text) : text[j] # Ch.lf
    ELSE 0

OneBasedColumn(text) == 1 + Len(text) - LastNewline(text)

Keyword(c) ==
    CASE c = Ch.t -> <<Ch.t, Ch.r, Ch.u, Ch.e>>
      [] c = Ch.f -> <<Ch.f, Ch.a, Ch.l, Ch.s, Ch.e>>
      [] c = Ch.n -> <<Ch.n, Ch.u, Ch.l, Ch.l>>

\* the last call of next() was on a text that starts as a keyword does
KeywordCall ==
    /\ items # <<>>
    /\ TokenText # <<>>
    /\ TokenText[1] \in {Ch.t, Ch.f, Ch.n}

\* the number of leading characters on which a and b agree
CommonPrefixLen(a, b) ==
    Cardinality({n \in 1 .. Len(a) :
                    n <= Len(b) /\ \A i \in 1 .. n : a[i] = b[i]})

Min(a, b) == IF a < b THEN a ELSE b

\* ------------------------------------------------------------------------
\* The JSON number grammar
\*     -? (0 | [1-9][0-9]*) (.[0-9]+)? ([eE][+-]?[0-9]+)?
\* and the decimal a text of that grammar denotes
\* ------------------------------------------------------------------------
IsDigits(s) == s # <<>> /\ \A i \in 1 .. Len(s) : s[i] \in Ch.zero .. Ch.nine

IsIntPart(s) == s = <<Ch.zero>> \/ (IsDigits(s) /\ s[1] # Ch.zero)

IsFracPart(s) == s = <<>> \/ (s[1] = Ch.dot /\ IsDigits(Tail(s)))

IsExpPart(s) ==
    \/ s = <<>>
    \/ /\ s[1] \in {Ch.e, Ch.E}
       /\ \/ IsDigits(Tail(s))
          \/ Len(s) >= 2 /\ s[2] \in {Ch.plus, Ch.minus} /\ IsDigits(SubSeq(s, 3, Len(s)))

IsJsonNumber(w) ==
    \E a \in 0 .. 1, b \in 0 .. Len(w), c \in 0 .. Len(w) :
        /\ a <= b
        /\ b <= c
        /\ (a = 1 => w[1] = Ch.minus)
        /\ IsIntPart(SubSeq(w, a + 1, b))
        /\ IsFracPart(SubSeq(w, b + 1, c))
        /\ IsExpPart(SubSeq(w, c + 1, Len(w)))

\* the characters that may follow a number
StructuralChars == {Ch.lbracket, Ch.rbracket, Ch.lbrace, Ch.rbrace, Ch.colon, Ch.comma}

\* the index of the first character of s that is in set (Len(s) + 1: none is)
IndexOf(s, set) ==
    IF \E i \in 1 .. Len(s) : s[i] \in set
    THEN CHOOSE i \in 1 .. Len(s) : s[i] \in set /\ \A j \in 1 .. i - 1 : s[j] \notin set
    ELSE Len(s) + 1

\* the parts of a text w of the grammar
Unsigned(w) == IF w[1] = Ch.minus THEN Tail(w) ELSE w

IntDigits(w) == SubSeq(Unsigned(w), 1, IndexOf(Unsigned(w), {Ch.dot, Ch.e, Ch.E}) - 1)

FracDigits(w) ==
    SubSeq(Unsigned(w), IndexOf(Unsigned(w), {Ch.dot}) + 1,
           IndexOf(Unsigned(w), {Ch.e, Ch.E}) - 1)

ExpDigits(w) ==
    SubSeq(w, IndexOf(w, {Ch.e, Ch.E}) + 1, Len(w))

RECURSIVE Decimal(_)
Decimal(s) ==
    IF s = <<>> THEN 0
    ELSE 10 * Decimal(SubSeq(s, 1, Len(s) - 1)) + (s[Len(s)] - Ch.zero)

Exponent(s) ==
    IF s = <<>> THEN 0
    ELSE IF s[1] = Ch.minus THEN 0 - Decimal(Tail(s))
    ELSE IF s[1] = Ch.plus THEN Decimal(Tail(s))
    ELSE Decimal(s)

RECURSIVE Pow10(_)
Pow10(n) == IF n = 0 THEN 1 ELSE 10 * Pow10(n - 1)

\* v = [neg, mant, exp] is the number that the text w of the grammar denotes:
\* mant * 10^exp = digits * 10^scale, with the sign of w (and -0 = 0)
Denotes(v, w) ==
    /\ v.neg = (w[1] = Ch.minus /\ Decimal(IntDigits(w) \o FracDigits(w)) # 0)
    /\ \E d \in 0 .. Len(w) :
          /\ v.mant * Pow10(d) = Decimal(IntDigits(w) \o FracDigits(w))
          /\ v.mant = 0 \/ v.exp = Exponent(ExpDigits(w)) - Len(FracDigits(w)) + d

\* the texts between the whitespace of data
RECURSIVE Words(_)
WordsFrom(t) ==
    IF t = <<>> THEN <<>>
    ELSE <<SubSeq(t, 1, IndexOf(t, JsonWhitespace) - 1)>>
             \o Words(SubSeq(t, IndexOf(t, JsonWhitespace), Len(t)))

Words(data) == WordsFrom(SkipWhitespace(data))

IsNumberList(data) ==
    \A i \in 1 .. Len(Words(data)) : IsJsonNumber(Words(data)[i])

\* ------------------------------------------------------------------------
\* The text of a string token: its escapes, read off the text itself
\* ------------------------------------------------------------------------
\* the last call of next() was on a text that starts with a quote
StringCall ==
    /\ items # <<>>
    /\ TokenText # <<>>
    /\ TokenText[1] = Ch.quote

IsHexDigit(c) == c \in (48 .. 57) \cup (65 .. 70) \cup (97 .. 102)

HexDigitValue(c) == IF c <= 57 THEN c - 48 ELSE IF c <= 70 THEN c - 55 ELSE c - 87

\* text has \u and four hex digits at index i
UnicodeEscapeAt(text, i) ==
    /\ i + 5 <= Len(text)
    /\ text[i] = Ch.backslash
    /\ text[i + 1] = Ch.u
    /\ \A k \in 2 .. 5 : IsHexDigit(text[i + k])

\* the value of the four hex digits of the \u escape at index i
Hex4At(text, i) ==
    4096 * HexDigitValue(text[i + 2]) + 256 * HexDigitValue(text[i + 3])
        + 16 * HexDigitValue(text[i + 4]) + HexDigitValue(text[i + 5])

HighSurrogateAt(text, i) ==
    UnicodeEscapeAt(text, i) /\ Hex4At(text, i) \in 55296 .. 56319

LowSurrogateAt(text, i) ==
    UnicodeEscapeAt(text, i) /\ Hex4At(text, i) \in 56320 .. 57343

RECURSIVE EscapeStarts(_, _)
\* the indices, from i on, of the backslashes that open an escape, up to the
\* first quote that is not escaped (a \u escape is six characters long, any
\* other escape two)
EscapeStarts(text, i) ==
    IF i > Len(text) THEN {}
    ELSE IF text[i] = Ch.quote THEN {}
    ELSE IF text[i] = Ch.backslash
    THEN {i} \cup EscapeStarts(text, IF i + 1 <= Len(text) /\ text[i + 1] = Ch.u
                                       THEN i + 6 ELSE i + 2)
    ELSE EscapeStarts(text, i + 1)

IsSimpleEscapeChar(c) ==
    c \in {Ch.quote, Ch.backslash, Ch.slash, Ch.b, Ch.f, Ch.n, Ch.r, Ch.t}

\* the character that a backslash followed by c stands for
SimpleEscape(c) ==
    CASE c = Ch.quote -> 34
      [] c = Ch.backslash -> 92
      [] c = Ch.slash -> 47
      [] c = Ch.b -> 8
      [] c = Ch.f -> 12
      [] c = Ch.n -> 10
      [] c = Ch.r -> 13
      [] c = Ch.t -> 9

\* a character that may stand unescaped in a string
IsPlainChar(c) == c >= 32 /\ c # Ch.quote /\ c # Ch.backslash

\* the code point of the pair of surrogates high, low
PairCodePoint(high, low) == (high - 55296) * 1024 + (low - 56320) + 65536

RECURSIVE WellFormedFrom(_, _), DecodedFrom(_, _), ClosingQuoteFrom(_, _)
\* from index i on, text is plain characters, two-character escapes, \u
\* escapes of a character that is no surrogate, and pairs of a high and a
\* low surrogate, up to a closing quote
WellFormedFrom(text, i) ==
    IF i > Len(text) THEN FALSE
    ELSE IF text[i] = Ch.quote THEN TRUE
    ELSE IF text[i] # Ch.backslash THEN IsPlainChar(text[i]) /\ WellFormedFrom(text, i + 1)
    ELSE IF i + 1 <= Len(text) /\ IsSimpleEscapeChar(text[i + 1])
    THEN WellFormedFrom(text, i + 2)
    ELSE IF HighSurrogateAt(text, i)
    THEN LowSurrogateAt(text, i + 6) /\ WellFormedFrom(text, i + 12)
    ELSE /\ UnicodeEscapeAt(text, i)
         /\ ~LowSurrogateAt(text, i)
         /\ WellFormedFrom(text, i + 6)

\* the characters that such a text denotes
DecodedFrom(text, i) ==
    IF text[i] = Ch.quote THEN <<>>
    ELSE IF text[i] # Ch.backslash THEN <<text[i]>> \o DecodedFrom(text, i + 1)
    ELSE IF IsSimpleEscapeChar(text[i + 1])
    THEN <<SimpleEscape(text[i + 1])>> \o DecodedFrom(text, i + 2)
    ELSE IF HighSurrogateAt(text, i)
    THEN <<PairCodePoint(Hex4At(text, i), Hex4At(text, i + 6))>> \o DecodedFrom(text, i + 12)
    ELSE <<Hex4At(text, i)>> \o DecodedFrom(text, i + 6)

\* the index of the first quote, from i on, that is not escaped (0: none)
ClosingQuoteFrom(text, i) ==
    IF i > Len(text) THEN 0
    ELSE IF text[i] = Ch.quote THEN i
    ELSE IF text[i] # Ch.backslash THEN ClosingQuoteFrom(text, i + 1)
    ELSE IF i + 1 <= Len(text) /\ text[i + 1] = Ch.u THEN ClosingQuoteFrom(text, i + 6)
    ELSE ClosingQuoteFrom(text, i + 2)

\* the escapes of text are all \u escapes
OnlyUnicodeEscapes(text) ==
    \A i \in EscapeStarts(text, 2) : i + 1 <= Len(text) /\ text[i + 1] = Ch.u

\* the escapes of text are all two-character escapes
OnlySimpleEscapes(text) ==
    \A i \in EscapeStarts(text, 2) : i + 1 <= Len(text) /\ text[i + 1] # Ch.u

RECURSIVE Unescaped(_, _)
\* the indices, from i on, of the characters outside an escape, up to the
\* first quote that is not escaped
Unescaped(text, i) ==
    IF i > Len(text) THEN {}
    ELSE IF text[i] = Ch.quote THEN {}
    ELSE IF text[i] # Ch.backslash THEN {i} \cup Unescaped(text, i + 1)
    ELSE Unescaped(text, IF i + 1 <= Len(text) /\ text[i + 1] = Ch.u THEN i + 6 ELSE i + 2)

\* text, the opening quote of a string and what follows, is well formed as
\* far as it goes: a closing quote after it would make it a string
WellFormedSoFar(text) == WellFormedFrom(text \o <<Ch.quote>>, 2)

\* text starts with the characters of prefix
StartsWith(text, prefix) ==
    Len(prefix) <= Len(text) /\ SubSeq(text, 1, Len(prefix)) = prefix

\* the token of the keyword that starts with c
KeywordToken(c) ==
    CASE c = Ch.t -> TokenValueBoolean(TRUE)
      [] c = Ch.f -> TokenValueBoolean(FALSE)
      [] c = Ch.n -> Tok("ValueNull")

(***************************************************************************)
(* The claims                                                              *)
(***************************************************************************)

\* C1: parse_json is total: whatever the input, it returns Ok(value) or
\* Err(JsonError); no input makes it panic or fail an assertion.
C1_ParseJsonNeverPanics ==
    /\ outcome.kind # "Panic"
    /\ (pc = "done" => outcome.kind \in {"Ok", "Err"})

\* when its (what the input lexes to) is the tokens of a value and then None,
\* parse_json has returned the tree of that value
ValueReturned(its) ==
    ( /\ its[Len(its)].kind = "None"
      /\ Len(its) >= 2 /\ its[Len(its) - 1].kind = "Ok"
      /\ IsValue(TokensOf(SubSeq(its, 1, Len(its) - 1))) )
    => outcome = [kind |-> "Ok", value |-> TreeOf(TokensOf(SubSeq(its, 1, Len(its) - 1)))]

C3_OkOnlyForValidValue ==
    pc = "done" =>
        /\ (outcome.kind = "Ok") = (AllOk(items) /\ IsValue(Pulled))
        /\ (AllOk(items) /\ ~IsValue(Pulled)) => outcome.kind = "Err"

\* C3 witness: parse_json has returned an Err at the closing bracket that
\* follows a ',' inside an array
C3_Witness ==
    /\ pc = "done"
    /\ outcome.kind = "Err"
    /\ AllOk(items)
    /\ Len(items) >= 4
    /\ Pulled[1].type = "ArrayStart"
    /\ Pulled[Len(items) - 1].type = "SeparatorValue"
    /\ Pulled[Len(items)].type = "ArrayEnd"

\* C4: on an empty input and on an input of space, tab, CR and LF only,
\* parse_json fails with JsonError::Other: the first next() of the lexer
\* returns None, no token and no error.
C4_WhitespaceOnlyIsEmptyInput ==
    (pc = "done" /\ IsWhitespaceOnly(input)) =>
        /\ outcome = ResErr(JsonErrorOther("No data to parse"))
        /\ items = <<ItemNone>>

\* C4 witness: parse_json has returned for an input made of a tab, a CR and
\* a LF
C4_Witness ==
    /\ pc = "done"
    /\ IsWhitespaceOnly(input)
    /\ {Ch.tab, Ch.lf, Ch.cr} \subseteq {input[i] : i \in 1 .. Len(input)}
    /\ outcome.kind = "Err"

\* C5: Position is 1-based on every line: the Position of a token is one
\* more than the number of newlines before it, and one more than the number
\* of characters between the last newline and it; so a token at the start
\* of a line has column 1.
C5_PositionIsOneBased ==
    (items # <<>> /\ Last.kind = "Ok") =>
        Last.token_info.context =
            [line |-> OneBasedLine(SubSeq(input, 1, TokenStart)),
             column |-> OneBasedColumn(SubSeq(input, 1, TokenStart))]

C7_ParseErrorAtOffendingToken ==
    (pc = "done" /\ outcome.kind = "Err" /\ outcome.error.variant = "Parser") =>
        outcome.error.context = Last.token_info.context

\* C8: every TokenInfo carries the cursor Position as it was after the
\* whitespace before the token and before the first character of the token,
\* whatever the lexer consumed for the token.
C8_TokenInfoAtTokenStart ==
    (items # <<>> /\ Last.kind = "Ok") => Last.token_info.context = StartContext

\* C8 witness: a token of several characters has been emitted, that starts
\* on a later line after whitespace
C8_Witness ==
    /\ items # <<>>
    /\ Last.kind = "Ok"
    /\ Len(Consumed) >= 2
    /\ TokenStart >= 2
    /\ Last.token_info.context.line >= 2
    /\ lexer.char_context # Last.token_info.context

\* C9: the lexer emits a Number token only when the characters it consumed
\* for the token match the JSON number grammar.
C9_NumberTokenOnlyForGrammar ==
    (items # <<>> /\ Last.kind = "Ok" /\ Last.token_info.token.type = "ValueNumber")
        => IsJsonNumber(Consumed)

\* C10: when the text at the cursor starts with a text w of the number
\* grammar, followed by whitespace, a structural character or the end of the
\* input, next() consumes exactly w and emits one Number token, the number w
\* denotes; and a whitespace-separated list of such texts lexes to one Number
\* token for each, in order, and then to None.
C10_NumberTextLexesToOneToken ==
    /\ items # <<>> =>
          \A n \in 1 .. Len(TokenText) :
              ( /\ IsJsonNumber(SubSeq(TokenText, 1, n))
                /\ n = Len(TokenText)
                      \/ TokenText[n + 1] \in JsonWhitespace \cup StructuralChars )
              => /\ Last.kind = "Ok"
                 /\ Last.token_info.token.type = "ValueNumber"
                 /\ Denotes(Last.token_info.token.val[1], SubSeq(TokenText, 1, n))
                 /\ Consumed = SubSeq(TokenText, 1, n)
    /\ (pc = "lex_done" /\ IsNumberList(input)) =>
          /\ Len(items) = Len(Words(input)) + 1
          /\ Last.kind = "None"
          /\ \A i \in 1 .. Len(Words(input)) :
                /\ items[i].kind = "Ok"
                /\ items[i].token_info.token.type = "ValueNumber"
                /\ Denotes(items[i].token_info.token.val[1], Words(input)[i])

\* C10 witness: the lexer has gone through a list of two numbers, of which
\* one has a fraction or an exponent
C10_Witness ==
    /\ pc = "lex_done"
    /\ IsNumberList(input)
    /\ Len(Words(input)) = 2
    /\ \E i \in 1 .. 2 : IndexOf(Words(input)[i], {Ch.dot, Ch.e, Ch.E}) <= Len(Words(input)[i])
    /\ Len(items) = 3

\* C11: in a string, a \u escape of a high surrogate that is not followed
\* at once by a \u escape of a low surrogate in [0xDC00, 0xDFFF] makes the
\* string fail with a LexError (stated for the first escape of the string,
\* which no earlier failure can hide).
C11_HighSurrogateNeedsLowSurrogate ==
    StringCall =>
        \A i \in EscapeStarts(TokenText, 2) :
            ( /\ \A j \in EscapeStarts(TokenText, 2) : i <= j
              /\ HighSurrogateAt(TokenText, i)
              /\ ~LowSurrogateAt(TokenText, i + 6) )
                => (Last.kind = "Err" /\ Last.error.variant = "Lexer")

\* C12: a string whose escapes are \u escapes, each a pair of a high and a
\* low surrogate or a character outside both surrogate ranges (hex digits
\* in either case), lexes to a String token that holds one character for
\* each: (high-0xD800)*0x400 + (low-0xDC00) + 0x10000 for a pair, XXXX for a
\* \uXXXX.
C12_UnicodeEscapesDecode ==
    (StringCall /\ OnlyUnicodeEscapes(TokenText) /\ WellFormedFrom(TokenText, 2)) =>
        /\ Last.kind = "Ok"
        /\ Last.token_info.token = TokenValueString(DecodedFrom(TokenText, 2))

\* C12 witness: a string with a pair of surrogates and with a \u escape of a
\* character of the basic plane has been lexed
C12_Witness ==
    /\ StringCall
    /\ OnlyUnicodeEscapes(TokenText)
    /\ WellFormedFrom(TokenText, 2)
    /\ Cardinality(EscapeStarts(TokenText, 2)) = 3
    /\ Last.kind = "Ok"
    /\ \E i, j \in 1 .. Len(Last.token_info.token.val) :
          /\ Last.token_info.token.val[i] >= 65536
          /\ Last.token_info.token.val[j] < 55296

\* C13: in a string, a backslash followed by one of " \ / b f n r t appends
\* the character it stands for and leaves escape mode, so that a string with
\* such escapes only lexes to the characters it denotes; a backslash
\* followed by another character that is not 'u', or by the end of the
\* input, fails with a LexError.
C13_SimpleEscapes ==
    StringCall =>
        /\ (OnlySimpleEscapes(TokenText) /\ WellFormedFrom(TokenText, 2)) =>
              /\ Last.kind = "Ok"
              /\ Last.token_info.token = TokenValueString(DecodedFrom(TokenText, 2))
        /\ \A i \in EscapeStarts(TokenText, 2) :
              ( /\ \A j \in EscapeStarts(TokenText, 2) :
                      j < i => IsSimpleEscapeChar(TokenText[j + 1])
                /\ \/ i + 1 > Len(TokenText)
                   \/ (~IsSimpleEscapeChar(TokenText[i + 1]) /\ TokenText[i + 1] # Ch.u) )
              => (Last.kind = "Err" /\ Last.error.variant = "Lexer")

\* C13 witness: a string with two different two-character escapes has been
\* lexed to a String token
C13_Witness ==
    /\ StringCall
    /\ OnlySimpleEscapes(TokenText)
    /\ WellFormedFrom(TokenText, 2)
    /\ Cardinality(EscapeStarts(TokenText, 2)) = 2
    /\ Last.kind = "Ok"
    /\ Len(Last.token_info.token.val) = 2
    /\ Last.token_info.token.val[1] # Last.token_info.token.val[2]
    /\ Last.token_info.token.val[2] < 32

\* C14: a String token ends at the first quote that is not escaped, and so
\* is never emitted when there is none; without escapes it holds the
\* characters between the quotes.  After a well-formed start of a string,
\* an unescaped character below 0x20 fails with a LexError, and so does the
\* end of the input.
C14_StringEndsAtUnescapedQuote ==
    StringCall =>
        /\ Last.kind = "Ok" =>
              /\ ClosingQuoteFrom(TokenText, 2) # 0
              /\ Consumed = SubSeq(TokenText, 1, ClosingQuoteFrom(TokenText, 2))
              /\ EscapeStarts(TokenText, 2) = {} =>
                    Last.token_info.token = TokenValueString(
                        SubSeq(TokenText, 2, ClosingQuoteFrom(TokenText, 2) - 1))
        /\ \A i \in Unescaped(TokenText, 2) :
              (TokenText[i] < 32 /\ WellFormedSoFar(SubSeq(TokenText, 1, i - 1)))
                  => (Last.kind = "Err" /\ Last.error.variant = "Lexer")
        /\ (ClosingQuoteFrom(TokenText, 2) = 0 /\ WellFormedSoFar(TokenText))
              => (Last.kind = "Err" /\ Last.error.variant = "Lexer")

\* C14 witness: a String token has ended at a quote that follows an escape
\* and is not the last character of the input
C14_Witness ==
    /\ StringCall
    /\ Last.kind = "Ok"
    /\ EscapeStarts(TokenText, 2) # {}
    /\ Len(Consumed) < Len(TokenText)

\* C15: a token that starts with 't', 'f' or 'n' is a keyword token only when
\* the text spells true, false or null; otherwise (a mismatching character,
\* the end of the input inside the keyword) next() returns a LexError, and
\* parse_json returns that Lexer error and no value.
C15_KeywordsSpelledExactly ==
    KeywordCall =>
        IF StartsWith(TokenText, Keyword(TokenText[1]))
        THEN /\ Last.kind = "Ok"
             /\ Last.token_info.token = KeywordToken(TokenText[1])
             /\ Consumed = Keyword(TokenText[1])
        ELSE /\ Last.kind = "Err"
             /\ Last.error.variant = "Lexer"
             /\ pc = "done"
             /\ outcome = ResErr(Last.error)

\* C15 witness: parse_json has returned the error of a keyword cut short by
\* the end of the input, inside an array
C15_Witness ==
    /\ KeywordCall
    /\ Len(items) >= 2
    /\ Len(TokenText) < Len(Keyword(TokenText[1]))
    /\ StartsWith(Keyword(TokenText[1]), TokenText)
    /\ pc = "done"
    /\ outcome.kind = "Err"

\* whichever items of its (what the input lexes to) start with the tokens of a
\* complete value, parse_json has returned the tree of that value and has
\* pulled those items only
PrefixValueReturned(its) ==
    \A k \in 1 .. Len(its) :
        ( /\ its[k].kind = "Ok"
          /\ IsValue(TokensOf(SubSeq(its, 1, k))) )
        => /\ outcome = [kind |-> "Ok", value |-> TreeOf(TokensOf(SubSeq(its, 1, k)))]
           /\ items = SubSeq(its, 1, k)

\* C16: when the first tokens of the input form a complete value, parse_json
\* returns Ok with the tree of those tokens and has requested those tokens
\* only, whatever follows them in the input (tokens, or text that is no
\* token).
C16_TrailingInputIgnored == pc = "done" => PrefixValueReturned(InputItems)

\* C16 witness: parse_json has returned an array that text that is no token
\* follows in the input
C16_Witness ==
    /\ pc = "done"
    /\ outcome.kind = "Ok"
    /\ outcome.value.kind = "Array"
    /\ lexer.data_iter # <<>>
    /\ InputItems[Len(InputItems)].kind = "Err"
    /\ Len(items) < Len(InputItems)

\* C17: when the parser, past the first token, asks the lexer for a token
\* and the lexer has none (the input ends in an open array or object, after
\* a key, a ':' or a ','), parse_json returns JsonError::Other; when the
\* lexer returns an error there, parse_json returns that error unchanged.
C17_PrematureEndIsOtherError ==
    Len(items) >= 2 =>
        /\ Last.kind = "None" =>
              (pc = "done" /\ outcome = ResErr(JsonErrorOther("No data to parse")))
        /\ Last.kind = "Err" => (pc = "done" /\ outcome = ResErr(Last.error))

\* C17 witness: the input has ended after the ':' of an object member
C17_Witness ==
    /\ Len(items) >= 4
    /\ Last.kind = "None"
    /\ items[Len(items) - 1].kind = "Ok"
    /\ items[Len(items) - 1].token_info.token.type = "SeparatorName"
    /\ pc = "done"
    /\ outcome.kind = "Err"

\* the failure that parse_json returns for an item that is no token
FailureOf(item) ==
    IF item.kind = "None" THEN ResErr(JsonErrorOther("No data to parse"))
    ELSE ResErr(item.error)

\* C18: the first error aborts the parse: an Err or a None of the lexer is
\* the last item the parser asks for, and parse_json returns it (None as
\* JsonError::Other); a ParseError is built on tokens only and ends the
\* parse; once an error is there, no step of the parser follows, so that no
\* later error replaces it and no value is returned.
C18_FirstErrorAborts ==
    /\ [](/\ \A i \in 1 .. Len(items) - 1 : items[i].kind = "Ok"
          /\ (items # <<>> /\ Last.kind \in {"Err", "None"}) =>
                (pc = "done" /\ outcome = FailureOf(Last))
          /\ outcome.kind = "Err" =>
                /\ pc = "done"
                /\ outcome.error.variant = "Parser" => AllOk(items))
    /\ [][/\ outcome.kind = "Running"
           /\ items' # items => AllOk(items)]_vars

\* C18 witness: parse_json has returned a ParseError while the rest of the
\* input holds text that is no token
C18_Witness ==
    /\ pc = "done"
    /\ outcome.kind = "Err"
    /\ outcome.error.variant = "Parser"
    /\ Len(items) >= 3
    /\ \E i \in 1 .. Len(lexer.data_iter) : lexer.data_iter[i] = Ch.x

(***************************************************************************)
(* Termination of parse_json                                               *)
(***************************************************************************)
\* the steps of the number scanner, in the order of the enum Step
StepOrder ==
    <<"Minus", "IntFirst", "Int", "FracOrExp", "FracFirst", "Frac", "ExpSign", "ExpFirst", "Exp">>

StepIndex(step) == CHOOSE i \in 1 .. Len(StepOrder) : StepOrder[i] = step

\* the locals of consume_number at an iteration in state step, the input at text
ScannerAt(step, text) ==
    [lx |-> LexerNew(text), step |-> step, number |-> <<>>, brk |-> FALSE, panic |-> FALSE]

\* the iteration from st to st2 consumed a character, moved on, or left the loop
IterationProgresses(st, st2) ==
    \/ st2.brk
    \/ Len(st2.lx.data_iter) < Len(st.lx.data_iter)
    \/ StepIndex(st2.step) > StepIndex(st.step)

\* every iteration of the loop, whatever its state and the character it peeks
\* (an iteration reads nothing else), makes that progress
NumberLoopProgresses ==
    \A i \in 1 .. Len(StepOrder) : \A text \in {<<>>} \cup {<<c>> : c \in 0 .. 127} :
        IterationProgresses(ScannerAt(StepOrder[i], text),
                            consume_number_iter(ScannerAt(StepOrder[i], text)))

RECURSIVE ScanProgresses(_)
\* the iterations consume_number runs from st all make that progress
ScanProgresses(st) ==
    \/ st.brk
    \/ /\ IterationProgresses(st, consume_number_iter(st))
       /\ ScanProgresses(consume_number_iter(st))

\* the last call of next() went to consume_number
NumberCall == TokenText # <<>> /\ (Head(TokenText) = Ch.minus \/ IsDigit(Head(TokenText)))

\* the number of Ok items the parser has pulled
OkCalls == Cardinality({i \in 1 .. Len(items) : items[i].kind = "Ok"})

\* where parse_json stands while it has not returned: the guards of Next
ParserSteps ==
    {"new", "value", "parse_array", "array_push", "parse_object", "object_key", "object_insert"}

\* twice the characters left, plus one while the parse runs, plus one more
\* while a pulled token waits for parse_json_value
Rank ==
    2 * Len(lexer.data_iter)
        + (IF pc = "done" THEN 0 ELSE IF pc = "value" THEN 2 ELSE 1)

\* C19: parse_json terminates on every finite input.  Each call of the lexer
\* by the parser that returns a token consumed at least one character, and any
\* other call ends the parse; each iteration of the number scanner's loop
\* consumes a character, moves to a later step or leaves the loop; a parse that
\* has not returned is at one of its steps, and each step lowers a rank that
\* starts at no more than twice the length of the input plus one.
C19_ParseJsonTerminates ==
    /\ [](/\ items # <<>> =>
                /\ Last.kind = "Ok" => Len(lexer.data_iter) < Len(before.data_iter)
                /\ Last.kind # "Ok" => pc = "done"
                /\ NumberCall => ScanProgresses(ScannerAt("Minus", TokenText))
          /\ OkCalls <= Len(input) - Len(lexer.data_iter)
          /\ NumberLoopProgresses
          /\ Rank <= 2 * Len(input) + 1
          /\ outcome.kind = "Running" <=> pc \in ParserSteps)
    /\ [][Rank' < Rank]_vars

\* a parse that returned a value after the scanner ran over a number with a
\* fraction and after three calls of the lexer or more
C19_Witness ==
    /\ pc = "done"
    /\ outcome.kind = "Ok"
    /\ Len(items) >= 3
    /\ \E i \in 1 .. Len(items) :
          /\ items[i].kind = "Ok"
          /\ items[i].token_info.token.type = "ValueNumber"
    /\ \E i \in 1 .. Len(input) : input[i] = Ch.dot

(***************************************************************************)
(* The end of the token sequence                                           *)
(***************************************************************************)
\* the last call of next() yielded an item and left the Lexer as it found
\* it: next() reads nothing but the Lexer, so every later call does the same
CallRepeats ==
    /\ items # <<>>
    /\ Last.kind \in {"Ok", "Err"}
    /\ lexer = before

\* C20: calling next() repeatedly reaches None after finitely many calls,
\* whatever items it yielded on the way: no call that yields a token or an
\* error leaves the Lexer as it found it (such a call would repeat for ever),
\* and a call that yields a token or an error took characters off the input,
\* so that None comes after Len(input) calls at most.
C20_LexerReachesNone ==
    /\ ~CallRepeats
    /\ items # <<>> /\ Last.kind \in {"Ok", "Err"} =>
            Len(lexer.data_iter) < Len(before.data_iter)
    /\ Len(items) <= Len(input) + 1

(***************************************************************************)
(* The lookahead of the parser                                             *)
(***************************************************************************)
\* C21: the parser holds exactly one lookahead: once it has pulled a token
\* from the lexer, in whichever operation (the check of the ':' after a key
\* included), current_token_info is that most recently pulled token.
C21_LookaheadIsLastPulled ==
    (items # <<>> /\ Last.kind = "Ok") => current_token_info = Last.token_info

(***************************************************************************)
(* Objects whose keys repeat                                               *)
(***************************************************************************)
\* ts is '{' key ':' leaf (',' key ':' leaf)* '}'
IsFlatObject(ts) ==
    /\ Len(ts) >= 5
    /\ (Len(ts) - 1) % 4 = 0
    /\ ts[1].type = "ObjectStart"
    /\ ts[Len(ts)].type = "ObjectEnd"
    /\ \A i \in 1 .. (Len(ts) - 1) \div 4 :
          /\ ts[4 * i - 2].type = "ValueString"
          /\ ts[4 * i - 1].type = "SeparatorName"
          /\ IsLeafToken(ts[4 * i])
          /\ i < (Len(ts) - 1) \div 4 => ts[4 * i + 1].type = "SeparatorValue"

\* the number of members of such an object, the key and the value of its i-th
MemberCount(ts) == (Len(ts) - 1) \div 4
KeyAt(ts, i) == ts[4 * i - 2].val
ValueAt(ts, i) == TreeOf(<<ts[4 * i]>>)

\* some key of the object occurs twice
HasRepeatedKey(ts) ==
    \E i, j \in 1 .. MemberCount(ts) : i < j /\ KeyAt(ts, i) = KeyAt(ts, j)

\* the last member of the object with the key of its i-th member
LastWith(ts, i) ==
    CHOOSE j \in i .. MemberCount(ts) :
        /\ KeyAt(ts, j) = KeyAt(ts, i)
        /\ \A k \in j + 1 .. MemberCount(ts) : KeyAt(ts, k) # KeyAt(ts, i)

\* parse_json has returned the object ts writes, each key with its last value
LastWriteWins(ts) ==
    /\ outcome.kind = "Ok"
    /\ outcome.value.kind = "Object"
    /\ DOMAIN outcome.value.v = {KeyAt(ts, i) : i \in 1 .. MemberCount(ts)}
    /\ \A i \in 1 .. MemberCount(ts) :
          outcome.value.v[KeyAt(ts, i)] = ValueAt(ts, LastWith(ts, i))

RepeatedKeyParsed(its) ==
    ( /\ its[Len(its)].kind = "None"
      /\ Len(its) >= 2 /\ its[Len(its) - 1].kind = "Ok"
      /\ IsFlatObject(TokensOf(SubSeq(its, 1, Len(its) - 1)))
      /\ HasRepeatedKey(TokensOf(SubSeq(its, 1, Len(its) - 1))) )
    => LastWriteWins(TokensOf(SubSeq(its, 1, Len(its) - 1)))

\* C22: when an object text contains the same key more than once, parse_json
\* returns Ok with an object that has one entry for that key, whose value is
\* the one of the last occurrence of the key in the text.
C22_LastDuplicateKeyWins == pc = "done" => RepeatedKeyParsed(InputItems)

\* C22 witness: parse_json has returned the object of a text whose key "a"
\* occurs twice or more with different values, the last of them the string b
C22_Witness ==
    /\ pc = "done"
    /\ outcome.kind = "Ok"
    /\ input \in ObjectInputs
    /\ HasRepeatedKey(InputTokens)
    /\ \E i, j \in 1 .. MemberCount(InputTokens) :
          /\ i < j
          /\ KeyAt(InputTokens, i) = <<Ch.a>>
          /\ KeyAt(InputTokens, j) = <<Ch.a>>
          /\ ValueAt(InputTokens, i) # ValueAt(InputTokens, j)
          /\ LastWith(InputTokens, i) = j
    /\ outcome.value.v[<<Ch.a>>] = JsonString(<<Ch.b>>)

(***************************************************************************)
(* Structural tokens and keywords, with and without whitespace             *)
(***************************************************************************)
\* text starts with the lexeme of a structural token or of a keyword
StartsSimple(text) ==
    /\ text # <<>>
    /\ \/ text[1] \in StructuralChars
       \/ text[1] \in {Ch.t, Ch.f, Ch.n} /\ StartsWith(text, Keyword(text[1]))

\* that lexeme, and its token
FirstSimple(text) == IF text[1] \in StructuralChars THEN <<text[1]>> ELSE Keyword(text[1])

SimpleToken(lexeme) ==
    CASE lexeme[1] = Ch.lbrace -> Tok("ObjectStart")
      [] lexeme[1] = Ch.rbrace -> Tok("ObjectEnd")
      [] lexeme[1] = Ch.lbracket -> Tok("ArrayStart")
      [] lexeme[1] = Ch.rbracket -> Tok("ArrayEnd")
      [] lexeme[1] = Ch.colon -> Tok("SeparatorName")
      [] lexeme[1] = Ch.comma -> Tok("SeparatorValue")
      [] OTHER -> KeywordToken(lexeme[1])

RECURSIVE IsSimpleText(_), SimpleLexemes(_)
\* data is made of such lexemes, with whitespace anywhere between them
IsSimpleTextFrom(t) ==
    t = <<>> \/ (StartsSimple(t) /\ IsSimpleText(SubSeq(t, Len(FirstSimple(t)) + 1, Len(t))))

IsSimpleText(data) == IsSimpleTextFrom(SkipWhitespace(data))

\* the lexemes of such a text, in order
SimpleLexemesFrom(t) ==
    IF t = <<>> THEN <<>>
    ELSE <<FirstSimple(t)>> \o SimpleLexemes(SubSeq(t, Len(FirstSimple(t)) + 1, Len(t)))

SimpleLexemes(data) == SimpleLexemesFrom(SkipWhitespace(data))

RECURSIVE Joined(_, _)
\* the lexemes ls written one after the other with sep between two of them
Joined(ls, sep) ==
    IF ls = <<>> THEN <<>>
    ELSE IF Len(ls) = 1 THEN ls[1]
    ELSE ls[1] \o sep \o Joined(Tail(ls), sep)

\* the items ts are the tokens of the lexemes ls, and then None
AreTokensOf(its, ls) ==
    /\ Len(its) = Len(ls) + 1
    /\ its[Len(its)].kind = "None"
    /\ \A i \in 1 .. Len(ls) :
          its[i].kind = "Ok" /\ its[i].token_info.token = SimpleToken(ls[i])

\* what the Lexer yields for a text
ItemsOf(text) == LexAll(LexerNew(text), FALSE, Len(text) + 1)

\* the lexemes ls lex to their tokens when written without whitespace and when
\* written with a space, a tab, a CR or a LF between them, and so did the input
SameWithAndWithoutWhitespace(ls) ==
    /\ AreTokensOf(items, ls)
    /\ AreTokensOf(ItemsOf(Joined(ls, <<>>)), ls)
    /\ \A ws \in JsonWhitespace : AreTokensOf(ItemsOf(Joined(ls, <<ws>>)), ls)

\* C23: structural tokens and the keywords true, false and null need no
\* whitespace between them: a text made of them lexes to the same tokens
\* written one after the other as separated by spaces, tabs, CR or LF; each
\* keyword ends after its letters, each structural token after one character.
C23_NoWhitespaceNeeded ==
    (pc = "lex_done" /\ IsSimpleText(input)) =>
        SameWithAndWithoutWhitespace(SimpleLexemes(input))

\* C23 witness: the Lexer has yielded the tokens of a text without whitespace
\* in which a keyword is followed at once by another token
C23_Witness ==
    /\ pc = "lex_done"
    /\ IsSimpleText(input)
    /\ \A i \in 1 .. Len(input) : input[i] \notin JsonWhitespace
    /\ Len(SimpleLexemes(input)) >= 2
    /\ Len(SimpleLexemes(input)[1]) >= 4
    /\ Len(items) = Len(SimpleLexemes(input)) + 1

(***************************************************************************)
(* The lookahead when parse_json_value returns                             *)
(***************************************************************************)
\* parse_json_value has just returned Ok: to the loop of parse_array or of
\* parse_object, or to parse_json
ValueReturnedOk == pc \in {"array_push", "object_insert"} \/ (pc = "done" /\ outcome.kind = "Ok")

\* the value it returned
ReturnedValue == IF pc = "done" THEN outcome.value ELSE ret

\* the tokens pulled so far end with the tokens of value, and nothing else
\* was pulled: its are the first of the items the input lexes to
EndsWithTokensOf(its, value) ==
    /\ AllOk(its)
    /\ \E k \in 1 .. Len(its) :
          /\ IsValue(TokensOf(SubSeq(its, k, Len(its))))
          /\ TreeOf(TokensOf(SubSeq(its, k, Len(its)))) = value
          /\ value.kind \in {"Null", "Number", "Boolean", "String"} => k = Len(its)
          /\ value.kind = "Array" => its[Len(its)].token_info.token.type = "ArrayEnd"
          /\ value.kind = "Object" => its[Len(its)].token_info.token.type = "ObjectEnd"

IsPrefixOf(its, all) == Len(its) <= Len(all) /\ its = SubSeq(all, 1, Len(its))

\* C24: whenever parse_json_value returns Ok, the lookahead is the last token
\* of the value just parsed: the leaf token itself for a Null, Number, Bool or
\* String (no token was pulled for it), the closing ']' or '}' for a
\* container; nothing after that token has been pulled, so that the caller's
\* advance lands on the token right after the value.
C24_LookaheadIsLastTokenOfValue ==
    ValueReturnedOk =>
        /\ AllOk(items)
        /\ current_token_info = Last.token_info
        /\ EndsWithTokensOf(items, ReturnedValue)
        /\ IsPrefixOf(items, InputItems)

\* C24 witness: inside an array, parse_json_value has returned a leaf to the
\* loop of parse_object, with text left after the leaf
C24_Witness ==
    /\ pc = "object_insert"
    /\ Len(stack) >= 2
    /\ ret.kind \in {"Number", "String"}
    /\ lexer.data_iter # <<>>

(***************************************************************************)
(* Where the number scanner stops                                          *)
(***************************************************************************)
\* p can be continued to a text of the number grammar: p is one, or p with a
\* 0 after it is one (a sign, a '.', an 'e' or a sign of the exponent that
\* still waits for its digit)
IsNumberPrefix(p) == IsJsonNumber(p) \/ IsJsonNumber(p \o <<Ch.zero>>)

\* the call consumed the text taken from the start of text, and stopped at the
\* first character that cannot continue a number: that character and what
\* follows it are left in the Lexer
StoppedAtFirstInvalid(text, taken, left) ==
    /\ text = taken \o left
    /\ taken # <<>>
    /\ IsNumberPrefix(taken)
    /\ left # <<>> => ~IsNumberPrefix(Append(taken, Head(left)))

\* a 0 and a digit right after it: the token is the 0 alone, and the digit is
\* the first character left
LeadingZeroAlone(text, taken, left) ==
    (Len(text) >= 2 /\ text[1] = Ch.zero /\ IsDigit(text[2])) =>
        /\ taken = <<Ch.zero>>
        /\ Head(left) = text[2]
        /\ Last.kind = "Ok"
        /\ Last.token_info.token.type = "ValueNumber"

\* C25: the number scanner never consumes the character that ends the
\* number: the first character that is not valid for its current state stays
\* in the input, as the first character the next call of next() sees; a digit
\* right after a leading 0 (as in 01) is not taken into the token of the 0.
C25_NumberEndStaysInInput ==
    (items # <<>> /\ NumberCall) =>
        /\ StoppedAtFirstInvalid(TokenText, Consumed, lexer.data_iter)
        /\ LeadingZeroAlone(TokenText, Consumed, lexer.data_iter)

\* C25 witness: for a text that starts with 01 the Lexer has yielded the
\* token of the 0, and then, in a second call, the token that starts at the 1
C25_Witness ==
    /\ Len(input) >= 2 /\ input[1] = Ch.zero /\ input[2] = Ch.one
    /\ Len(items) = 2
    /\ items[1].kind = "Ok" /\ items[1].token_info.token.type = "ValueNumber"
    /\ before.data_iter = Tail(input)
    /\ Last.kind = "Ok" /\ Last.token_info.token.type = "ValueNumber"
    /\ Last.token_info.context # items[1].token_info.context

(***************************************************************************)
(* The four characters of a \u escape                                      *)
(***************************************************************************)
\* the first escape of text is a \u whose four characters are not all hex
\* digits (or are cut short by the end of the text)
FirstEscapeIsBadUnicode(text) ==
    \E i \in EscapeStarts(text, 2) :
        /\ \A j \in EscapeStarts(text, 2) : i <= j
        /\ i + 1 <= Len(text)
        /\ text[i + 1] = Ch.u
        /\ ~UnicodeEscapeAt(text, i)

\* C26: a \u escape succeeds only when each of the four characters read after
\* it is a hex digit (0-9, a-f, A-F): when one of them is anything else (a
\* sign, a non-ASCII character, another letter), the string fails with a
\* LexError (stated for the first escape of the string, which no earlier
\* failure can hide).
C26_UnicodeEscapeNeedsHexDigits ==
    (StringCall /\ FirstEscapeIsBadUnicode(TokenText)) =>
        (Last.kind = "Err" /\ Last.error.variant = "Lexer")

====
